---------------------------- MODULE Spec2Model ----------------------------
(***************************************************************************)
(* Model of scripts/scrape_announcements.py: the announcement pipeline     *)
(* (fetch, normalise/deduplicate, categorise, extract highlights, rate)    *)
(* and the run of main around it.                                          *)
(*                                                                         *)
(* Python strings are TLA+ strings; a character is a string of length 1.   *)
(* The texts of the model are ASCII.  The source's two non-ASCII literals  *)
(* (the star glyph of the ratings and the rupee sign of the patterns) are  *)
(* written Star and left out of the patterns' alternatives: no text of the *)
(* model holds a non-ASCII character, so that alternative never matches.   *)
(***************************************************************************)
EXTENDS Naturals, Integers, Sequences, FiniteSets, TLC

VARIABLES
    \* ---- a call of one of the pure functions
    h_text,          \* first argument: subject / text
    h_arg2,          \* second argument: description / category
    h_n,             \* number of fragments the text was built from
    h_pc,            \* "idle" | "input" | "returned"
    h_ret,           \* the returned string
    positive_count,  \* assess_investment_implication: local, after the bonus
    negative_count,  \* assess_investment_implication: local
    highlights,      \* extract_key_highlights: the local list at the return
    h_calls,         \* the calls of extract_key_highlights made so far, with their results
    \* ---- process_announcements
    announcements_data,  \* the argument: the list of raw records
    p_i,                 \* position of the for loop: index of the next record
    processed,           \* local list of Announcements
    seen,                \* local set of dedup keys
    p_pc,                \* "idle" | "loop" | "returned" | "aborted"
    p_calls,             \* the calls the loop made to categorizer, extractor and scorer
    \* ---- main and the fetch loop
    m_pc,                \* position of main
    environ,             \* os.environ, as far as main reads it
    GOOGLE_AVAILABLE,    \* module global set by the import of the Google client
    days_back,           \* main: local
    md_i,                \* get_bse_announcements_multi_day: loop variable i
    all_announcements,   \* get_bse_announcements_multi_day: local list
    fetches,             \* the calls of get_bse_announcements_by_date so far
    calls,               \* the calls main made to renderer, sheet and email
    output,              \* what main printed about the outcome of the run
    clock,               \* the wall clock: what datetime.now() returns
    midnights,           \* number of midnights that passed during the run
    output_files,        \* the spreadsheet files on disk: path and rows saved
    sheet_requests,      \* the requests update_google_sheet sent to the remote sheet
    remote_sheet         \* the remote sheet: the rows of Sheet1!A:I and the cell K1

hvars == <<h_text, h_arg2, h_n, h_pc, h_ret, positive_count, negative_count, highlights,
          h_calls>>

pvars == <<announcements_data, p_i, processed, seen, p_pc, p_calls>>

dvars == <<output_files, sheet_requests, remote_sheet>>

mvars == <<m_pc, environ, GOOGLE_AVAILABLE, days_back, md_i, all_announcements, fetches, calls,
           output, clock, midnights, dvars>>

vars == <<hvars, pvars, mvars>>

-----------------------------------------------------------------------------
(* Strings *)

\* Body applied to value, with value evaluated once
With(value, Body(_)) == CHOOSE r \in {Body(v) : v \in {value}} : TRUE

CharAt(s, i) == SubSeq(s, i, i)

UpperAlphabet == "ABCDEFGHIJKLMNOPQRSTUVWXYZ"
LowerAlphabet == "abcdefghijklmnopqrstuvwxyz"
Digits == "0123456789"

CharsOf(s) == {CharAt(s, i) : i \in 1..Len(s)}
UpperSet == CharsOf(UpperAlphabet)
LowerSet == CharsOf(LowerAlphabet)
DigitSet == CharsOf(Digits)

IndexIn(s, c) == CHOOSE i \in 1..Len(s) : CharAt(s, i) = c

ToLowerTable == [c \in UpperSet |-> CharAt(LowerAlphabet, IndexIn(UpperAlphabet, c))]
ToUpperTable == [c \in LowerSet |-> CharAt(UpperAlphabet, IndexIn(LowerAlphabet, c))]

LowerChar(c) == IF c \in UpperSet THEN ToLowerTable[c] ELSE c
UpperChar(c) == IF c \in LowerSet THEN ToUpperTable[c] ELSE c

\* str.lower(), character by character (the string is halved to keep the evaluation shallow)
RECURSIVE str_lower(_)
str_lower(s) ==
    IF Len(s) = 0 THEN ""
    ELSE IF Len(s) = 1 THEN LowerChar(s)
    ELSE With(SubSeq(s, 1, Len(s) \div 2), LAMBDA left : str_lower(left))
             \o With(SubSeq(s, Len(s) \div 2 + 1, Len(s)), LAMBDA right : str_lower(right))

\* str.upper()
RECURSIVE str_upper(_)
str_upper(s) ==
    IF Len(s) = 0 THEN ""
    ELSE IF Len(s) = 1 THEN UpperChar(s)
    ELSE With(SubSeq(s, 1, Len(s) \div 2), LAMBDA left : str_upper(left))
             \o With(SubSeq(s, Len(s) \div 2 + 1, Len(s)), LAMBDA right : str_upper(right))

SetMin(S) == CHOOSE x \in S : \A y \in S : x <= y
SetMax(S) == CHOOSE x \in S : \A y \in S : x >= y

\* s[:n]
Prefix(s, n) == IF Len(s) <= n THEN s ELSE SubSeq(s, 1, n)

\* s[i:] with i a 1-based position
From(s, i) == IF i > Len(s) THEN "" ELSE SubSeq(s, i, Len(s))

\* lit occurs in s at position i
LitAt(s, i, lit) == i + Len(lit) - 1 <= Len(s) /\ SubSeq(s, i, i + Len(lit) - 1) = lit

\* kw in text
Contains(text, kw) == \E i \in 1..(Len(text) - Len(kw) + 1) : SubSeq(text, i, i + Len(kw) - 1) = kw

\* any(kw in text for kw in kws)
AnyIn(kws, text) == \E k \in 1..Len(kws) : Contains(text, kws[k])

-----------------------------------------------------------------------------
(* categorize_announcement *)

\* the Dividend rule tested before the Board Meeting rule
categorize_dividend_first(subject, description) ==
    With(str_lower(subject \o " " \o description), LAMBDA text :
    IF AnyIn(<<"dividend", "interim dividend", "final dividend">>, text) THEN "Dividend"
    ELSE IF AnyIn(<<"board meeting", "meeting of board">>, text) THEN "Board Meeting"
    ELSE IF AnyIn(<<"expansion", "capacity", "capex", "new plant", "new facility">>, text) THEN "Expansion"
    ELSE "Others")

categorize_announcement(subject, description) ==
    With(str_lower(subject \o " " \o description), LAMBDA text :
    IF AnyIn(<<"board meeting", "meeting of board">>, text) THEN "Board Meeting"
    ELSE IF AnyIn(<<"financial result", "quarterly result", "annual result", "q1", "q2", "q3", "q4">>, text)
        THEN "Financial Results"
    ELSE IF AnyIn(<<"dividend", "interim dividend", "final dividend">>, text) THEN "Dividend"
    ELSE IF AnyIn(<<"agm", "egm", "annual general", "extraordinary general">>, text) THEN "AGM/EGM"
    ELSE IF AnyIn(<<"acquisition", "acquire", "takeover">>, text) THEN "Acquisition"
    ELSE IF AnyIn(<<"investor presentation", "analyst meet", "investor meet">>, text)
        THEN "Investor Presentation"
    ELSE IF AnyIn(<<"fund raising", "qip", "preferential", "rights issue", "fpo">>, text) THEN "Fund Raising"
    ELSE IF AnyIn(<<"merger", "demerger", "amalgamation", "scheme of arrangement">>, text)
        THEN "Merger/Demerger"
    ELSE IF AnyIn(<<"director", "appointment", "resignation", "cessation">>, text)
        THEN "Change in Directors"
    ELSE IF AnyIn(<<"bonus", "split", "buyback", "corporate action">>, text) THEN "Corporate Action"
    ELSE IF AnyIn(<<"concall", "conference call", "earnings call", "transcript">>, text)
        THEN "Concall Transcript"
    ELSE IF AnyIn(<<"order", "contract", "award", "mandate">>, text) THEN "Order Win"
    ELSE IF AnyIn(<<"expansion", "capacity", "capex", "new plant", "new facility">>, text) THEN "Expansion"
    ELSE IF AnyIn(<<"rating", "credit rating", "upgrade", "downgrade">>, text) THEN "Rating"
    ELSE "Others")

-----------------------------------------------------------------------------
(* Calls of the pure functions: the argument text is built from fragments *)
(* of a vocabulary, joined by single spaces, then the function is called. *)

\* the wall clock when a run starts
StartOfRun == [ok |-> TRUE, y |-> 2024, mo |-> 3, d |-> 1, h |-> 23, mi |-> 50]

Unset == [set |-> FALSE, v |-> ""]

NoEnviron ==
    [DAYS_BACK |-> Unset, OUTPUT_DIR |-> Unset, GOOGLE_CREDENTIALS |-> Unset,
     GOOGLE_SHEET_ID |-> Unset, EMAIL_ADDRESS |-> Unset, EMAIL_PASSWORD |-> Unset]

\* process_announcements is not running
PIdle ==
    /\ announcements_data = <<>> /\ p_i = 0 /\ processed = <<>> /\ seen = {} /\ p_pc = "idle"
    /\ p_calls = <<>>

\* main is not running
MIdle ==
    /\ m_pc = "idle" /\ environ = NoEnviron /\ GOOGLE_AVAILABLE = FALSE /\ days_back = 0
    /\ md_i = 0 /\ all_announcements = <<>> /\ fetches = <<>> /\ calls = <<>> /\ output = <<>>
    /\ clock = StartOfRun /\ midnights = 0
    /\ output_files = {} /\ sheet_requests = <<>> /\ remote_sheet = [range_AI |-> <<>>, K1 |-> ""]

HIdle ==
    /\ h_text = "" /\ h_arg2 = "" /\ h_n = 0 /\ h_pc = "idle" /\ h_ret = ""
    /\ positive_count = 0 /\ negative_count = 0 /\ highlights = <<>> /\ h_calls = <<>>

JoinWord(t, w) == t \o " " \o w

\* bound: fragments per subject in the categorizer's specification
MaxCatWords == 3

CatVocabulary ==
    {"Board Meeting", "Dividend", "capex", "Q3", "ipo", "work order",
     "Credit Rating", "declared", "Acquire", "Bonus"}

CatDescriptions == {"", "meeting of Board"}

InitCategorize ==
    /\ h_text = "" /\ h_arg2 \in CatDescriptions /\ h_n = 0 /\ h_pc = "input" /\ h_ret = ""
    /\ positive_count = 0 /\ negative_count = 0 /\ highlights = <<>> /\ h_calls = <<>>
    /\ PIdle /\ MIdle

AddCatWord ==
    /\ h_pc = "input" /\ h_n < MaxCatWords
    /\ \E w \in CatVocabulary : h_text' = IF h_text = "" THEN w ELSE JoinWord(h_text, w)
    /\ h_n' = h_n + 1
    /\ UNCHANGED <<h_arg2, h_pc, h_ret, positive_count, negative_count, highlights, h_calls, pvars, mvars>>

CallCategorize ==
    /\ h_pc = "input"
    /\ h_ret' = categorize_announcement(h_text, h_arg2)
    /\ h_pc' = "returned"
    /\ UNCHANGED <<h_text, h_arg2, h_n, positive_count, negative_count, highlights, h_calls, pvars, mvars>>

NextCategorize == AddCatWord \/ CallCategorize

SpecCategorize == InitCategorize /\ [][NextCategorize]_vars

-----------------------------------------------------------------------------
(* C2 *)

\* Section 4.2 of the specification: the ordered rule set
CategoryRules ==
    << [label |-> "Board Meeting",         kws |-> {"board meeting", "meeting of board"}],
       [label |-> "Financial Results",     kws |-> {"financial result", "quarterly result", "annual result",
                                                    "q1", "q2", "q3", "q4"}],
       [label |-> "Dividend",              kws |-> {"dividend", "interim dividend", "final dividend"}],
       [label |-> "AGM/EGM",               kws |-> {"agm", "egm", "annual general", "extraordinary general"}],
       [label |-> "Acquisition",           kws |-> {"acquisition", "acquire", "takeover"}],
       [label |-> "Investor Presentation", kws |-> {"investor presentation", "analyst meet", "investor meet"}],
       [label |-> "Fund Raising",          kws |-> {"fund raising", "qip", "preferential", "rights issue", "fpo"}],
       [label |-> "Merger/Demerger",       kws |-> {"merger", "demerger", "amalgamation", "scheme of arrangement"}],
       [label |-> "Change in Directors",   kws |-> {"director", "appointment", "resignation", "cessation"}],
       [label |-> "Corporate Action",      kws |-> {"bonus", "split", "buyback", "corporate action"}],
       [label |-> "Concall Transcript",    kws |-> {"concall", "conference call", "earnings call", "transcript"}],
       [label |-> "Order Win",             kws |-> {"order", "contract", "award", "mandate"}],
       [label |-> "Expansion",             kws |-> {"expansion", "capacity", "capex", "new plant", "new facility"}],
       [label |-> "Rating",                kws |-> {"rating", "credit rating", "upgrade", "downgrade"}] >>

CategoryLabels == {CategoryRules[r].label : r \in 1..Len(CategoryRules)} \cup {"Others"}

\* kw occurs in text as a case-insensitive substring
OccursIgnoringCase(text, kw) ==
    \E i \in 0..(Len(text) - Len(kw)) :
        \A j \in 1..Len(kw) : LowerChar(CharAt(text, i + j)) = CharAt(kw, j)

RuleMatches(r, text) == \E kw \in CategoryRules[r].kws : OccursIgnoringCase(text, kw)

\* C2: the category returned is one label of the closed set: that of the
\* earliest rule of section 4.2 with a keyword occurring, case-insensitively,
\* in subject + " " + description, and "Others" when no rule has one; so
\* "dividend" together with "board meeting" gives "Board Meeting", and "capex"
\* with no keyword of rules 1..12 gives "Expansion".
C2_EarliestRuleWins ==
    h_pc = "returned" =>
        LET text == h_text \o " " \o h_arg2
            hits == {r \in 1..Len(CategoryRules) : RuleMatches(r, text)}
        IN  /\ h_ret \in CategoryLabels
            /\ hits = {} => h_ret = "Others"
            /\ hits # {} => h_ret = CategoryRules[CHOOSE r \in hits : \A q \in hits : r <= q].label
            /\ (OccursIgnoringCase(text, "dividend") /\ OccursIgnoringCase(text, "board meeting"))
                   => h_ret = "Board Meeting"
            /\ (OccursIgnoringCase(text, "capex") /\ \A r \in 1..12 : ~RuleMatches(r, text))
                   => h_ret = "Expansion"

\* a subject with "Dividend" and "Board Meeting" was categorised, and one with "capex" alone
C2_Witness ==
    /\ h_pc = "returned"
    /\ h_text = "Dividend Board Meeting capex"
    /\ h_arg2 = ""
    /\ h_ret = "Board Meeting"

-----------------------------------------------------------------------------
(* assess_investment_implication *)

POSITIVE_KEYWORDS ==
    << "profit increase", "profit up", "revenue growth", "dividend", "bonus",
       "acquisition", "expansion", "new order", "contract win", "upgrade",
       "record", "highest ever", "beat estimates", "outperform", "growth",
       "investment", "capex", "expansion plan", "new plant", "capacity addition" >>

NEGATIVE_KEYWORDS ==
    << "profit decline", "profit down", "revenue decline", "loss", "downgrade",
       "resign", "exit", "closure", "default", "penalty", "fraud",
       "miss estimates", "underperform", "weak", "challenging" >>

\* the star glyph of the rating literals
Star == "*"

\* number of places of text where kw occurs
CountOccurrences(text, kw) == Cardinality({i \in 1..Len(text) : LitAt(text, i, kw)})

\* every occurrence of a keyword counted
RECURSIVE keyword_hits_per_occurrence(_, _)
keyword_hits_per_occurrence(kws, text_lower) ==
    IF kws = <<>> THEN 0
    ELSE CountOccurrences(text_lower, Head(kws)) + keyword_hits_per_occurrence(Tail(kws), text_lower)

\* sum(1 for kw in kws if kw in text_lower)
RECURSIVE keyword_hits(_, _)
keyword_hits(kws, text_lower) ==
    IF kws = <<>> THEN 0
    ELSE (IF Contains(text_lower, Head(kws)) THEN 1 ELSE 0) + keyword_hits(Tail(kws), text_lower)

\* the bonus, were Dividend not among the categories that add 2
category_bonus_without_dividend(category) ==
    IF category \in {"Order Win", "Expansion"} THEN 2
    ELSE IF category \in {"Fund Raising"} THEN 1
    ELSE 0

\* if category in [...]: positive_count += 2 elif category in ['Fund Raising']: positive_count += 1
category_bonus(category) ==
    IF category \in {"Dividend", "Order Win", "Expansion"} THEN 2
    ELSE IF category \in {"Fund Raising"} THEN 1
    ELSE 0

adjusted_positive_count(text, category) ==
    With(str_lower(text), LAMBDA text_lower : keyword_hits(POSITIVE_KEYWORDS, text_lower))
        + category_bonus(category)

raw_negative_count(text) ==
    With(str_lower(text), LAMBDA text_lower : keyword_hits(NEGATIVE_KEYWORDS, text_lower))

\* the chain of comparisons and the literals returned
rating_of(positive, negative) ==
    IF positive > negative + 2 THEN Star \o Star \o Star \o " POSITIVE"
    ELSE IF positive > negative THEN Star \o Star \o " MODERATE"
    ELSE IF negative > positive + 2 THEN Star \o " CAUTIOUS"
    ELSE IF negative > positive THEN Star \o Star \o " WATCH"
    ELSE Star \o Star \o " NEUTRAL"

assess_investment_implication(text, category) ==
    rating_of(adjusted_positive_count(text, category), raw_negative_count(text))

\* bound: fragments per text in the scorer's specification
MaxAssessWords == 3

AssessVocabulary == {"Dividend", "Bonus", "expansion plan", "Loss", "weak", "fraud", "notice"}

AssessCategories == {"Others", "Dividend", "Order Win", "Fund Raising", "Rating"}

InitAssess ==
    /\ h_text = "" /\ h_arg2 \in AssessCategories /\ h_n = 0 /\ h_pc = "input" /\ h_ret = ""
    /\ positive_count = 0 /\ negative_count = 0 /\ highlights = <<>> /\ h_calls = <<>>
    /\ PIdle /\ MIdle

AddAssessWord ==
    /\ h_pc = "input" /\ h_n < MaxAssessWords
    /\ \E w \in AssessVocabulary : h_text' = IF h_text = "" THEN w ELSE JoinWord(h_text, w)
    /\ h_n' = h_n + 1
    /\ UNCHANGED <<h_arg2, h_pc, h_ret, positive_count, negative_count, highlights, h_calls, pvars, mvars>>

CallAssess ==
    /\ h_pc = "input"
    /\ positive_count' = adjusted_positive_count(h_text, h_arg2)
    /\ negative_count' = raw_negative_count(h_text)
    /\ h_ret' = assess_investment_implication(h_text, h_arg2)
    /\ h_pc' = "returned"
    /\ UNCHANGED <<h_text, h_arg2, h_n, highlights, h_calls, pvars, mvars>>

NextAssess == AddAssessWord \/ CallAssess

SpecAssess == InitAssess /\ [][NextAssess]_vars

-----------------------------------------------------------------------------
(* C3 *)

\* C3: the rating returned is the one the five tests choose, in their order,
\* on the adjusted counts, and its text is the star prefix followed by the
\* rating's name: POSITIVE, MODERATE POSITIVE, CAUTIOUS, WATCH or NEUTRAL.
C3_RatingTextAsSpecified ==
    h_pc = "returned" =>
        h_ret = (IF positive_count > negative_count + 2 THEN "*** POSITIVE"
                 ELSE IF positive_count > negative_count THEN "** MODERATE POSITIVE"
                 ELSE IF negative_count > positive_count + 2 THEN "* CAUTIOUS"
                 ELSE IF negative_count > positive_count THEN "** WATCH"
                 ELSE "** NEUTRAL")

-----------------------------------------------------------------------------
(* C4 *)

KeywordsOccurring(kws, text) == {k \in 1..Len(kws) : OccursIgnoringCase(text, kws[k])}

\* C4: the positive (negative) count is the number of keywords of the list
\* occurring in the lower-cased text, each counted once; the positive count is
\* raised by 2 for Dividend, Order Win and Expansion, by 1 for Fund Raising,
\* by 0 otherwise.  So 3 positive and no negative keywords rate POSITIVE under
\* Others, and 1 positive and no negative keyword rates POSITIVE under Order Win.
C4_CountsAndBonus ==
    h_pc = "returned" =>
        LET npos == Cardinality(KeywordsOccurring(POSITIVE_KEYWORDS, h_text))
            nneg == Cardinality(KeywordsOccurring(NEGATIVE_KEYWORDS, h_text))
            bonus == CASE h_arg2 \in {"Dividend", "Order Win", "Expansion"} -> 2
                       [] h_arg2 = "Fund Raising" -> 1
                       [] OTHER -> 0
        IN  /\ positive_count = npos + bonus
            /\ negative_count = nneg
            /\ (npos = 3 /\ nneg = 0 /\ h_arg2 = "Others") => h_ret = "*** POSITIVE"
            /\ (npos = 1 /\ nneg = 0 /\ h_arg2 = "Order Win") => h_ret = "*** POSITIVE"

\* one positive keyword, written three times, was rated under Order Win
C4_Witness ==
    /\ h_pc = "returned"
    /\ h_text = "Bonus Bonus Bonus"
    /\ h_arg2 = "Order Win"
    /\ positive_count = 3
    /\ h_ret = "*** POSITIVE"

-----------------------------------------------------------------------------
(* extract_key_highlights: the regular expressions *)

\* \s (the ASCII white space a TLA+ string can hold)
SpaceSet == {" ", "\t", "\n", "\r", "\f"}
\* [:\s]
ColonSpaceSet == SpaceSet \cup {":"}
\* [\d,\.]
AmountSet == DigitSet \cup {",", "."}
\* \w
WordSet == LowerSet \cup UpperSet \cup DigitSet \cup {"_"}

\* the end of the longest run of characters of S that starts at i (a greedy X*)
SpanEnd(s, i, S) ==
    With({j \in i..Len(s) : CharAt(s, j) \notin S}, LAMBDA stops :
        IF stops # {} THEN SetMin(stops) ELSE IF i > Len(s) THEN i ELSE Len(s) + 1)

NoMatch == [ok |-> FALSE, cap |-> "", end |-> 0]

\* \s*([\d,\.]+) at p
amount_at(s, p) ==
    With(SpanEnd(s, p, SpaceSet), LAMBDA a :
    With(SpanEnd(s, a, AmountSet), LAMBDA e :
        IF e > a THEN [ok |-> TRUE, cap |-> SubSeq(s, a, e - 1), end |-> e] ELSE NoMatch))

\* (?:rs\.?|inr|<rupee>)?\s*([\d,\.]+) at q: the alternatives in the order the
\* engine tries them, the optional group skipped last
currency_amount_at(s, q) ==
    IF LitAt(s, q, "rs") /\ LitAt(s, q + 2, ".") /\ amount_at(s, q + 3).ok THEN amount_at(s, q + 3)
    ELSE IF LitAt(s, q, "rs") /\ amount_at(s, q + 2).ok THEN amount_at(s, q + 2)
    ELSE IF LitAt(s, q, "inr") /\ amount_at(s, q + 3).ok THEN amount_at(s, q + 3)
    ELSE amount_at(s, q)

\* the first literal of alts found at p, "" when none is
RECURSIVE first_literal_at(_, _, _)
first_literal_at(s, p, alts) ==
    IF alts = <<>> THEN ""
    ELSE IF LitAt(s, p, Head(alts)) THEN Head(alts)
    ELSE first_literal_at(s, p, Tail(alts))

\* \s*(?:crore|cr|lakh|billion|million)? at e: the position after it
unit_tail_end(s, e) ==
    With(SpanEnd(s, e, SpaceSet), LAMBDA p :
        p + Len(first_literal_at(s, p, <<"crore", "cr", "lakh", "billion", "million">>)))

\* \s*(?:per\s+share)? at e: the position after it
per_share_tail_end(s, e) ==
    With(SpanEnd(s, e, SpaceSet), LAMBDA p :
    With(SpanEnd(s, p + 3, SpaceSet), LAMBDA q :
        IF LitAt(s, p, "per") /\ q > p + 3 /\ LitAt(s, q, "share") THEN q + 5 ELSE p))

\* <word>[:\s]+(?:rs\.?|inr|<rupee>)?\s*([\d,\.]+) with the literal <word> at i
keyword_amount_at(s, i, word) ==
    With(SpanEnd(s, i + Len(word), ColonSpaceSet), LAMBDA q :
        IF LitAt(s, i, word) /\ q > i + Len(word) THEN currency_amount_at(s, q) ELSE NoMatch)

\* 'revenue': revenue[:\s]+(?:rs\.?|inr|<rupee>)?\s*([\d,\.]+)\s*(?:crore|cr|lakh|billion|million)?
revenue_at(s, i) ==
    With(keyword_amount_at(s, i, "revenue"), LAMBDA m :
        IF m.ok THEN [m EXCEPT !.end = unit_tail_end(s, m.end)] ELSE NoMatch)

\* 'profit': (?:net\s+)?profit[:\s]+(?:rs\.?|inr|<rupee>)?\s*([\d,\.]+)\s*(?:crore|cr|lakh|billion|million)?
profit_at(s, i) ==
    With(SpanEnd(s, i + 3, SpaceSet), LAMBDA p :
    With(IF LitAt(s, i, "net") /\ p > i + 3 THEN keyword_amount_at(s, p, "profit") ELSE NoMatch,
         LAMBDA withNet :
    With(IF withNet.ok THEN withNet ELSE keyword_amount_at(s, i, "profit"), LAMBDA m :
        IF m.ok THEN [m EXCEPT !.end = unit_tail_end(s, m.end)] ELSE NoMatch)))

\* 'dividend': dividend[:\s]+(?:rs\.?|inr|<rupee>)?\s*([\d,\.]+)\s*(?:per\s+share)?
dividend_at(s, i) ==
    With(keyword_amount_at(s, i, "dividend"), LAMBDA m :
        IF m.ok THEN [m EXCEPT !.end = per_share_tail_end(s, m.end)] ELSE NoMatch)

\* (\d+(?:\.\d+)?)\s*% at c
percent_at(s, c) ==
    With(SpanEnd(s, c, DigitSet), LAMBDA d :
    With(SpanEnd(s, d + 1, DigitSet), LAMBDA f :
    With(IF LitAt(s, d, ".") /\ f > d + 1 THEN f ELSE d, LAMBDA e :
    With(SpanEnd(s, e, SpaceSet), LAMBDA w :
        IF d > c /\ LitAt(s, w, "%")
        THEN [ok |-> TRUE, cap |-> SubSeq(s, c, e - 1), end |-> w + 1]
        ELSE NoMatch))))

\* \s+(?:<opt>\s+)?(\d+(?:\.\d+)?)\s*% at a, <opt> being "of" or "by"
spaced_percent_at(s, a, opt) ==
    With(SpanEnd(s, a, SpaceSet), LAMBDA b :
    With(SpanEnd(s, b + Len(opt), SpaceSet), LAMBDA c :
    With(IF LitAt(s, b, opt) /\ c > b + Len(opt) THEN percent_at(s, c) ELSE NoMatch,
         LAMBDA withOpt :
        IF b = a THEN NoMatch
        ELSE IF withOpt.ok THEN withOpt
        ELSE percent_at(s, b))))

\* 'growth': (?:growth|increase|up|rose)\s+(?:of\s+)?(\d+(?:\.\d+)?)\s*%
growth_at(s, i) ==
    With(first_literal_at(s, i, <<"growth", "increase", "up", "rose">>), LAMBDA lit :
        IF lit = "" THEN NoMatch ELSE spaced_percent_at(s, i + Len(lit), "of"))

\* (\w+)\s+(?:increased|decreased|grew|fell|rose|dropped)\s+(?:by\s+)?(\d+(?:\.\d+)?)\s*%
\* the capture is the pair (word, value)
pct_change_at(s, i) ==
    With(SpanEnd(s, i, WordSet), LAMBDA w :
    With(SpanEnd(s, w, SpaceSet), LAMBDA v :
    With(first_literal_at(s, v, <<"increased", "decreased", "grew", "fell", "rose", "dropped">>),
         LAMBDA verb :
    With(spaced_percent_at(s, v + Len(verb), "by"), LAMBDA m :
        IF w > i /\ v > w /\ verb # "" /\ m.ok
        THEN [ok |-> TRUE, cap |-> <<SubSeq(s, i, w - 1), m.cap>>, end |-> m.end]
        ELSE NoMatch))))

match_at(pattern, s, i) ==
    CASE pattern = "revenue"  -> revenue_at(s, i)
      [] pattern = "profit"   -> profit_at(s, i)
      [] pattern = "growth"   -> growth_at(s, i)
      [] pattern = "dividend" -> dividend_at(s, i)
      [] pattern = "pct"      -> pct_change_at(s, i)

\* re.findall(pattern, s): the captures of the non-overlapping matches, left to right
\* (the search resumes at the end of each match; a match is never empty)
RECURSIVE findall(_, _, _)
findall(pattern, s, i) ==
    With({j \in i..Len(s) : match_at(pattern, s, j).ok}, LAMBDA starts :
        IF starts = {} THEN <<>>
        ELSE With(match_at(pattern, s, SetMin(starts)), LAMBDA m :
                 <<m.cap>> \o findall(pattern, s, m.end)))

-----------------------------------------------------------------------------
(* extract_key_highlights *)

\* seq[:n]
Take(seq, n) == IF Len(seq) <= n THEN seq ELSE SubSeq(seq, 1, n)

\* str.title(): a letter is upper-cased when no letter precedes it, lower-cased otherwise
RECURSIVE title_from(_, _)
title_from(s, prevCased) ==
    IF s = "" THEN ""
    ELSE LET c == Head(s)
             cased == c \in LowerSet \cup UpperSet
         IN  (IF ~cased THEN c ELSE IF prevCased THEN LowerChar(c) ELSE UpperChar(c))
                 \o title_from(Tail(s), cased)

str_title(s) == title_from(s, FALSE)

\* str.strip()
RECURSIVE rstrip_end(_, _)
rstrip_end(s, j) == IF j >= 1 /\ CharAt(s, j) \in SpaceSet THEN rstrip_end(s, j - 1) ELSE j

str_strip(s) ==
    With(SpanEnd(s, 1, SpaceSet), LAMBDA a :
    With(rstrip_end(s, Len(s)), LAMBDA b :
        IF a > b THEN "" ELSE SubSeq(s, a, b)))

\* text.split('.')
RECURSIVE split_dot(_, _)
split_dot(s, start) ==
    With({i \in start..Len(s) : CharAt(s, i) = "."}, LAMBDA dots :
        IF dots = {} THEN << From(s, start) >>
        ELSE With(SetMin(dots), LAMBDA dot :
                 << SubSeq(s, start, dot - 1) >> \o split_dot(s, dot + 1)))

\* sep.join(items)
RECURSIVE str_join(_, _)
str_join(sep, items) ==
    IF items = <<>> THEN ""
    ELSE IF Len(items) = 1 THEN items[1]
    ELSE items[1] \o sep \o str_join(sep, Tail(items))

\* every match of a metric emitted
all_matches(matches) == matches

\* matches[:2]
first_two_matches(matches) == Take(matches, 2)

\* the loop over patterns.items(): f"{metric.upper()}: {match}" for the first two matches of each
RECURSIVE metric_items(_, _)
metric_items(metrics, text_lower) ==
    IF metrics = <<>> THEN <<>>
    ELSE With(first_two_matches(findall(Head(metrics), text_lower, 1)), LAMBDA matches :
             [k \in 1..Len(matches) |-> str_upper(Head(metrics)) \o ": " \o matches[k]])
             \o metric_items(Tail(metrics), text_lower)

\* for metric, value in pct_changes[:3]: f"{metric.title()} change: {value}%"
change_items(text_lower) ==
    With(Take(findall("pct", text_lower, 1), 3), LAMBDA pct_changes :
        [k \in 1..Len(pct_changes) |->
            str_title(pct_changes[k][1]) \o " change: " \o pct_changes[k][2] \o "%"])

structured_items(text) ==
    With(str_lower(text), LAMBDA text_lower :
        metric_items(<<"revenue", "profit", "growth", "dividend">>, text_lower)
            \o change_items(text_lower))

\* the fallback with the fragments kept whole
fallback_items_uncut(text) ==
    With(Take(split_dot(text, 1), 2), LAMBDA sentences :
    With([k \in 1..Len(sentences) |-> str_strip(sentences[k])], LAMBDA stripped :
        SelectSeq(stripped, LAMBDA f : Len(f) > 20)))

\* sentences = text.split('.')[:2]; [s.strip()[:100] for s in sentences if len(s.strip()) > 20]
fallback_items(text) ==
    With(Take(split_dot(text, 1), 2), LAMBDA sentences :
    With([k \in 1..Len(sentences) |-> str_strip(sentences[k])], LAMBDA stripped :
    With(SelectSeq(stripped, LAMBDA f : Len(f) > 20), LAMBDA long :
        [k \in 1..Len(long) |-> Prefix(long[k], 100)])))

\* a list that outlives the call: the items of the earlier calls are still in it
list_kept_between_calls(earlier) == earlier

\* highlights = [] (line 142): every call binds the name to a new empty list,
\* whatever list an earlier call built under that name
list_at_entry(earlier) == <<>>

\* the local list highlights when the return statement is reached, in a call
\* made after a call that built the list earlier
highlights_at_return(earlier, text) ==
    With(list_at_entry(earlier) \o structured_items(text), LAMBDA items :
        IF items # <<>> THEN items ELSE fallback_items(text))

\* one call of lines 140-167 after a call that built the list earlier: the
\* list at the return statement and the returned string; the category
\* argument is not read
extract_key_highlights_call(earlier, text, category) ==
    With(highlights_at_return(earlier, text), LAMBDA hl :
        [highlights |-> hl,
         returned |-> IF hl # <<>> THEN str_join(" | ", Take(hl, 4))
                      ELSE "See PDF for details"])

\* the returned string of a call; no earlier call is in it
extract_key_highlights(text, category) ==
    extract_key_highlights_call(<<>>, text, category).returned

\* bound: fragments per text in the extractor's specification
MaxHlWords == 2

LongFragment ==
    "Intimation of the schedule of the analyst and institutional investor meet under the SEBI listing regulations as amended"

HlVocabulary ==
    {"revenue 1 revenue 2 revenue 3", "Net Profit: Rs. 40 crore", "growth of 8.5 %",
     "Dividend Rs 2 per share", "sales rose 5% costs fell 3% exports grew by 7% margin dropped 1%",
     "Outcome of the meeting held today.", "Short.", "Short. Brief.", LongFragment}

InitHighlights ==
    /\ h_text = "" /\ h_arg2 \in {"Others", "Dividend"} /\ h_n = 0 /\ h_pc = "input" /\ h_ret = ""
    /\ positive_count = 0 /\ negative_count = 0 /\ highlights = <<>> /\ h_calls = <<>>
    /\ PIdle /\ MIdle

AddHlWord ==
    /\ h_pc = "input" /\ h_n < MaxHlWords
    /\ \E w \in HlVocabulary : h_text' = IF h_text = "" THEN w ELSE JoinWord(h_text, w)
    /\ h_n' = h_n + 1
    /\ UNCHANGED <<h_arg2, h_pc, h_ret, positive_count, negative_count, highlights, h_calls, pvars, mvars>>

\* a call of extract_key_highlights in the state the calls before it left
CallHighlights ==
    /\ h_pc = "input"
    /\ \E call \in {extract_key_highlights_call(highlights, h_text, h_arg2)} :
          /\ highlights' = call.highlights
          /\ h_ret' = call.returned
          /\ h_calls' = Append(h_calls, [text |-> h_text, category |-> h_arg2,
                                         returned |-> call.returned])
    /\ h_pc' = "returned"
    /\ UNCHANGED <<h_text, h_arg2, h_n, positive_count, negative_count, pvars, mvars>>

NextHighlights == AddHlWord \/ CallHighlights

SpecHighlights == InitHighlights /\ [][NextHighlights]_vars

\* bound: calls of extract_key_highlights in one history
MaxCalls == 3

RepeatTexts ==
    {"revenue 1 revenue 2 revenue 3 sales rose 5% costs fell 3%",
     "Outcome of the meeting held today.", "Short. Brief."}

RepeatCategories == {"Others", "Dividend"}

InitRepeat ==
    /\ h_text \in RepeatTexts /\ h_arg2 \in RepeatCategories /\ h_n = 0 /\ h_pc = "input"
    /\ h_ret = "" /\ positive_count = 0 /\ negative_count = 0 /\ highlights = <<>>
    /\ h_calls = <<>> /\ PIdle /\ MIdle

\* the caller picks the arguments of the next call
NextArguments ==
    /\ h_pc = "returned" /\ Len(h_calls) < MaxCalls
    /\ h_text' \in RepeatTexts /\ h_arg2' \in RepeatCategories
    /\ h_pc' = "input"
    /\ UNCHANGED <<h_n, h_ret, positive_count, negative_count, highlights, h_calls, pvars, mvars>>

\* the calls of the history: extract_key_highlights, and between its calls
\* the two other functions that process_announcements calls on a record
NextRepeat == NextArguments \/ CallHighlights \/ CallCategorize \/ CallAssess

SpecRepeat == InitRepeat /\ [][NextRepeat]_vars

-----------------------------------------------------------------------------
(* C11 *)

\* C11: extract_key_highlights is deterministic: any two calls of one history
\* with the same text returned the same string, whatever their categories and
\* whatever calls were made between them.
C11_SameTextSameHighlights ==
    \A j, k \in 1..Len(h_calls) :
        h_calls[j].text = h_calls[k].text => h_calls[j].returned = h_calls[k].returned

\* a text without figures and without a long sentence was digested with
\* category Dividend, then a text with figures, whose call left a list of
\* five items, then the first text again with category Others: both calls on
\* the first text returned the sentinel
C11_Witness ==
    /\ Len(h_calls) = 3 /\ h_pc = "returned"
    /\ h_calls[1].text = "Short. Brief." /\ h_calls[3].text = h_calls[1].text
    /\ h_calls[1].category = "Dividend" /\ h_calls[3].category = "Others"
    /\ h_calls[2].returned = "REVENUE: 1 | REVENUE: 2 | GROWTH: 5 | Sales change: 5%"
    /\ h_calls[1].returned = "See PDF for details"
    /\ h_calls[3].returned = h_calls[1].returned
    /\ highlights = <<>>

-----------------------------------------------------------------------------
(* C9 *)

\* 1..4: an item of the revenue, profit, growth, dividend pattern; 5: a change item; 0: neither
ItemKind(item) ==
    IF LitAt(item, 1, "REVENUE: ") THEN 1
    ELSE IF LitAt(item, 1, "PROFIT: ") THEN 2
    ELSE IF LitAt(item, 1, "GROWTH: ") THEN 3
    ELSE IF LitAt(item, 1, "DIVIDEND: ") THEN 4
    ELSE IF Contains(item, " change: ") /\ LitAt(item, Len(item), "%") THEN 5
    ELSE 0

\* the first n items, each followed by " | " but the last
RECURSIVE ItemsJoined(_, _)
ItemsJoined(items, n) ==
    IF n = 0 THEN ""
    ELSE IF n = 1 THEN items[1]
    ELSE ItemsJoined(items, n - 1) \o " | " \o items[n]

\* C9: at most 2 items per named numeric pattern and at most 3 change items
\* are emitted, in the order revenue, profit, growth, dividend, change; the
\* result is the first at most 4 of them joined by " | ", and never holds
\* more than 4 items.
C9_AtMostFourItemsInOrder ==
    h_pc = "returned" =>
        LET n == Len(highlights)
            kind == [k \in 1..n |-> ItemKind(highlights[k])]
        IN  /\ \A m \in 1..4 : Cardinality({k \in 1..n : kind[k] = m}) <= 2
            /\ Cardinality({k \in 1..n : kind[k] = 5}) <= 3
            /\ (\E k \in 1..n : kind[k] # 0) =>
                   \A j, k \in 1..n : j < k => (kind[j] # 0 /\ kind[j] <= kind[k])
            /\ n > 0 => h_ret = ItemsJoined(highlights, IF n < 4 THEN n ELSE 4)
            /\ CountOccurrences(h_ret, " | ") <= 3

\* three revenue figures and four changes: two revenue items, one growth item and
\* three change items emitted, the first four returned
C9_Witness ==
    /\ h_pc = "returned"
    /\ h_text = "revenue 1 revenue 2 revenue 3 sales rose 5% costs fell 3% exports grew by 7% margin dropped 1%"
    /\ Len(highlights) = 6
    /\ highlights[6] = "Exports change: 7%"
    /\ h_ret = "REVENUE: 1 | REVENUE: 2 | GROWTH: 5 | Sales change: 5%"

-----------------------------------------------------------------------------
(* C10 *)

Sentinel == "See PDF for details"

DotPositions(t) == {i \in 1..Len(t) : CharAt(t, i) = "."}

\* the position of the k-th period of t
NthDot(t, k) == CHOOSE i \in DotPositions(t) : Cardinality({j \in DotPositions(t) : j <= i}) = k

\* the k-th period-delimited fragment of t, k in 1..(number of periods + 1)
Fragment(t, k) ==
    LET first == IF k = 1 THEN 1 ELSE NthDot(t, k - 1) + 1
        last == IF k <= Cardinality(DotPositions(t)) THEN NthDot(t, k) - 1 ELSE Len(t)
    IN  IF first > last THEN "" ELSE SubSeq(t, first, last)

\* f without its leading and trailing white space
Trimmed(f) ==
    LET solid == {i \in 1..Len(f) : CharAt(f, i) \notin SpaceSet}
    IN  IF solid = {} THEN ""
        ELSE SubSeq(f, SetMin(solid), SetMax(solid))

\* the trimmed fragments longer than 20 characters among the first K fragments of t, in order
LongLeadingFragments(t, K) ==
    LET count == Cardinality(DotPositions(t)) + 1
        m == IF count < K THEN count ELSE K
    IN  SelectSeq([k \in 1..m |-> Trimmed(Fragment(t, k))], LAMBDA f : Len(f) > 20)

NoLongSentence(t) ==
    \A k \in 1..(Cardinality(DotPositions(t)) + 1) : Len(Trimmed(Fragment(t, k))) <= 20

\* C10 as claimed: with no structured match the result is made of the trimmed
\* period-delimited fragments longer than 20 characters among the leading (2 or
\* 3) fragments, and is the sentinel when no sentence is longer than 20 characters.
C10_FallbackFragmentsWhole ==
    (h_pc = "returned" /\ structured_items(h_text) = <<>>) =>
        /\ \E K \in {2, 3} :
              LET long == LongLeadingFragments(h_text, K)
              IN  h_ret = IF long = <<>> THEN Sentinel ELSE ItemsJoined(long, Len(long))
        /\ NoLongSentence(h_text) => h_ret = Sentinel

\* C10, amended: with no structured match the result is made of the trimmed
\* fragments longer than 20 characters among the first 2 period-delimited
\* fragments, each cut to its first 100 characters, joined by " | "; it is the
\* sentinel when there is none, so whenever no sentence is longer than 20 characters.
C10_FallbackFragmentsCut ==
    (h_pc = "returned" /\ structured_items(h_text) = <<>>) =>
        /\ LET long == LongLeadingFragments(h_text, 2)
               cut == [k \in 1..Len(long) |-> Prefix(long[k], 100)]
           IN  h_ret = IF long = <<>> THEN Sentinel ELSE ItemsJoined(cut, Len(cut))
        /\ NoLongSentence(h_text) => h_ret = Sentinel

\* a fragment of more than 100 characters was returned cut, after a short one
C10_Witness ==
    /\ h_pc = "returned"
    /\ h_text = "Short. " \o LongFragment
    /\ Len(LongFragment) > 100
    /\ h_ret = Prefix(LongFragment, 100)

-----------------------------------------------------------------------------
(* Dates: datetime.fromisoformat, datetime.strptime, strftime *)

DigitValue(c) == IndexIn(Digits, c) - 1

AllDigits(s) == \A i \in 1..Len(s) : CharAt(s, i) \in DigitSet

\* int(s) for a string of digits
RECURSIVE NatOf(_)
NatOf(s) ==
    IF s = "" THEN 0
    ELSE With(SubSeq(s, 1, Len(s) - 1), LAMBDA init : 10 * NatOf(init))
             + DigitValue(CharAt(s, Len(s)))

\* str(n) for n >= 0
RECURSIVE NatToStr(_)
NatToStr(n) == IF n < 10 THEN CharAt(Digits, n + 1) ELSE NatToStr(n \div 10) \o CharAt(Digits, (n % 10) + 1)

\* %d, %I, %M: two digits
Pad2(n) == IF n < 10 THEN "0" \o NatToStr(n) ELSE NatToStr(n)

\* n digits at position i
DigitsAt(s, i, n) == i + n - 1 <= Len(s) /\ AllDigits(SubSeq(s, i, i + n - 1))

MonthAbbr == <<"Jan", "Feb", "Mar", "Apr", "May", "Jun", "Jul", "Aug", "Sep", "Oct", "Nov", "Dec">>

IsLeap(y) == (y % 4 = 0 /\ y % 100 # 0) \/ y % 400 = 0

DaysInMonth(y, m) ==
    IF m = 2 THEN (IF IsLeap(y) THEN 29 ELSE 28)
    ELSE IF m \in {4, 6, 9, 11} THEN 30 ELSE 31

\* the fields the constructor of datetime accepts
ValidDateTime(y, mo, d, h, mi, sec) ==
    /\ y >= 1 /\ y <= 9999 /\ mo \in 1..12 /\ d >= 1 /\ d <= DaysInMonth(y, mo)
    /\ h <= 23 /\ mi <= 59 /\ sec <= 59

ParseError == [ok |-> FALSE, y |-> 0, mo |-> 0, d |-> 0, h |-> 0, mi |-> 0]

DateTime(y, mo, d, h, mi) == [ok |-> TRUE, y |-> y, mo |-> mo, d |-> d, h |-> h, mi |-> mi]

\* news_dt.replace('Z', '+00:00')
RECURSIVE replace_Z(_)
replace_Z(s) ==
    With({i \in 1..Len(s) : CharAt(s, i) = "Z"}, LAMBDA zs :
        IF zs = {} THEN s
        ELSE With(SetMin(zs), LAMBDA z :
                 SubSeq(s, 1, z - 1) \o "+00:00" \o With(From(s, z + 1), LAMBDA rest : replace_Z(rest))))

\* ---- datetime.fromisoformat, as the C module of Python 3.11 parses a text

\* the character at position i; "" past the end of the text, where the C
\* string has its terminating NUL
CharOrNul(s, i) == IF i >= 1 /\ i <= Len(s) THEN SubSeq(s, i, i) ELSE ""

\* parse_digits: n digits at position p; end is the position after them
parse_digits(s, p, n) ==
    IF DigitsAt(s, p, n)
    THEN [ok |-> TRUE, end |-> p + n, v |-> NatOf(SubSeq(s, p, p + n - 1))]
    ELSE [ok |-> FALSE, end |-> 0, v |-> 0]

\* days_before_year, days_before_month, ymd_to_ord, weekday (0 is Monday), for y >= 1
days_before_year(y) ==
    (y - 1) * 365 + ((y - 1) \div 4) - ((y - 1) \div 100) + ((y - 1) \div 400)

days_before_month(y, m) ==
    <<0, 31, 59, 90, 120, 151, 181, 212, 243, 273, 304, 334>>[m]
        + (IF m > 2 /\ IsLeap(y) THEN 1 ELSE 0)

ymd_to_ord(y, m, d) == days_before_year(y) + days_before_month(y, m) + d

weekday(y, m, d) == (ymd_to_ord(y, m, d) + 6) % 7

\* the ordinal of the Monday that starts week 1 of the ISO year
iso_week1_monday(y) ==
    With(ymd_to_ord(y, 1, 1), LAMBDA first_day :
    With((first_day + 6) % 7, LAMBDA first_weekday :
        first_day - first_weekday + (IF first_weekday > 3 THEN 7 ELSE 0)))

\* ord_to_ymd, for an ordinal >= 1: 146097, 36524 and 1461 days are in 400,
\* 100 and 4 years; n is the day of the year, the first counted as 0
ord_to_ymd(ordinal) ==
    With((ordinal - 1) \div 146097, LAMBDA n400 :
    With((ordinal - 1) % 146097, LAMBDA r400 :
    With(r400 \div 36524, LAMBDA n100 :
    With(r400 % 36524, LAMBDA r100 :
    With(r100 \div 1461, LAMBDA n4 :
    With(r100 % 1461, LAMBDA r4 :
    With(r4 \div 365, LAMBDA n1 :
    With(r4 % 365, LAMBDA n :
    With(n400 * 400 + 1 + n100 * 100 + n4 * 4 + n1, LAMBDA year :
        IF n1 = 4 \/ n100 = 4 THEN DateTime(year - 1, 12, 31, 0, 0)
        ELSE LET month == CHOOSE m \in 1..12 :
                              /\ days_before_month(year, m) <= n
                              /\ n < days_before_month(year, m) + DaysInMonth(year, m)
             IN  DateTime(year, month, n - days_before_month(year, month) + 1, 0, 0))))))))))

\* iso_to_ymd: week 53 exists in years that start on a Thursday, and in leap
\* years that start on a Wednesday; a date before year 1 is no datetime
iso_to_ymd(iso_year, iso_week, iso_day) ==
    IF iso_year < 1 THEN ParseError
    ELSE IF iso_week <= 0 \/ iso_week > 53 THEN ParseError
    ELSE IF iso_week = 53 /\ ~(\/ weekday(iso_year, 1, 1) = 3
                               \/ weekday(iso_year, 1, 1) = 2 /\ IsLeap(iso_year)) THEN ParseError
    ELSE IF iso_day <= 0 \/ iso_day >= 8 THEN ParseError
    ELSE With(iso_week1_monday(iso_year) + (iso_week - 1) * 7 + iso_day - 1, LAMBDA ordinal :
             IF ordinal < 1 THEN ParseError ELSE ord_to_ymd(ordinal))

\* _find_isoformat_datetime_separator, for a text of 7 characters or more: the
\* number of characters of the date (YYYY-MM-DD 10, YYYYMMDD 8, YYYY-Www 8,
\* YYYYWww 7, YYYY-Www-d 10, YYYYWwwd 8); -1 for YYYY-Www- alone
find_isoformat_datetime_separator(s) ==
    IF Len(s) = 7 THEN 7
    ELSE IF CharAt(s, 5) = "-"
    THEN IF CharAt(s, 6) = "W"
         THEN IF Len(s) > 8 /\ CharAt(s, 9) = "-"
              THEN IF Len(s) = 9 THEN -1
                   ELSE IF Len(s) > 10 /\ CharAt(s, 11) \in DigitSet THEN 8
                   ELSE 10
              ELSE 8
         ELSE 10
    ELSE IF CharAt(s, 5) = "W"
    THEN With(SpanEnd(s, 8, DigitSet) - 1, LAMBDA idx :
             IF idx < 9 THEN idx ELSE IF idx % 2 = 0 THEN 7 ELSE 8)
    ELSE 8

\* parse_isoformat_date: the date in the first len characters of s, a calendar
\* date or a week date, the dash used throughout or not at all
parse_isoformat_date(s, len) ==
    With(parse_digits(s, 1, 4), LAMBDA year :
    IF ~year.ok THEN ParseError
    ELSE With(CharOrNul(s, 5) = "-", LAMBDA uses_separator :
         With(IF uses_separator THEN 6 ELSE 5, LAMBDA p :
         IF CharOrNul(s, p) = "W"
         THEN With(parse_digits(s, p + 1, 2), LAMBDA week :
              IF ~week.ok THEN ParseError
              ELSE IF week.end - 1 < len
              THEN IF uses_separator /\ CharOrNul(s, week.end) # "-" THEN ParseError
                   ELSE With(parse_digits(s, IF uses_separator THEN week.end + 1 ELSE week.end, 1),
                             LAMBDA day :
                            IF ~day.ok THEN ParseError ELSE iso_to_ymd(year.v, week.v, day.v))
              ELSE iso_to_ymd(year.v, week.v, 1))
         ELSE With(parse_digits(s, p, 2), LAMBDA month :
              IF ~month.ok THEN ParseError
              ELSE IF uses_separator /\ CharOrNul(s, month.end) # "-" THEN ParseError
              ELSE With(parse_digits(s, IF uses_separator THEN month.end + 1 ELSE month.end, 2),
                        LAMBDA day :
                       IF ~day.ok THEN ParseError
                       ELSE DateTime(year.v, month.v, day.v, 0, 0))))))

\* the result of parse_hh_mm_ss_ff: rv 0 when the text ended with the
\* components, 1 when a character follows them, negative on failure
TimeParts(rv, vals) ==
    [rv |-> rv, h |-> IF Len(vals) >= 1 THEN vals[1] ELSE 0,
     mi |-> IF Len(vals) >= 2 THEN vals[2] ELSE 0, sec |-> IF Len(vals) >= 3 THEN vals[3] ELSE 0]

\* the fraction of parse_hh_mm_ss_ff: up to six digits are read, further
\* digits are skipped
iso_fraction(s, p, end, vals) ==
    With(IF end - p >= 6 THEN 6 ELSE end - p, LAMBDA to_parse :
    With(parse_digits(s, p, to_parse), LAMBDA r :
        IF ~r.ok THEN TimeParts(-3, vals)
        ELSE With(SpanEnd(s, r.end, DigitSet), LAMBDA q :
                 TimeParts(IF CharOrNul(s, q) # "" THEN 1 ELSE 0, vals))))

\* parse_hh_mm_ss_ff, its loop from component i (0 hours, 1 minutes, 2
\* seconds) at position p: HH[:?MM[:?SS]], the colon used as after the hours;
\* end is the position after the part of the text that holds the components
RECURSIVE parse_hh_mm_ss_ff(_, _, _, _, _, _)
parse_hh_mm_ss_ff(s, p, end, i, has_separator, vals) ==
    With(parse_digits(s, p, 2), LAMBDA r :
    IF ~r.ok THEN TimeParts(-3, vals)
    ELSE With(CharOrNul(s, r.end), LAMBDA c :
         With(IF i = 0 THEN c = ":" ELSE has_separator, LAMBDA sep :
         With(Append(vals, r.v), LAMBDA vs :
         With(r.end + 1, LAMBDA q :
             IF q >= end THEN TimeParts(IF c # "" THEN 1 ELSE 0, vs)
             ELSE IF sep /\ c = ":"
             THEN (IF i = 2 THEN iso_fraction(s, q, end, vs) ELSE parse_hh_mm_ss_ff(s, q, end, i + 1, sep, vs))
             ELSE IF c = "." \/ c = "," THEN iso_fraction(s, q, end, vs)
             ELSE IF ~sep
             THEN (IF i = 2 THEN iso_fraction(s, q - 1, end, vs)
                   ELSE parse_hh_mm_ss_ff(s, q - 1, end, i + 1, sep, vs))
             ELSE TimeParts(-4, vs))))))

\* parse_isoformat_time: the time up to the first of Z + -, then the offset as
\* HH[:?MM[:?SS]] with a fraction; what parse_hh_mm_ss_ff reports about the
\* character before the offset is not looked at. The offset must be less than
\* 24 hours (timezone); ok, h, mi, sec of the time are returned
parse_isoformat_time(t) ==
    With({i \in 1..Len(t) : CharAt(t, i) \in {"Z", "+", "-"}}, LAMBDA marks :
    With(IF marks = {} THEN (IF Len(t) = 0 THEN 2 ELSE Len(t) + 1) ELSE SetMin(marks), LAMBDA tzinfo_pos :
    With(parse_hh_mm_ss_ff(t, 1, tzinfo_pos, 0, TRUE, <<>>), LAMBDA time :
        IF time.rv < 0 THEN [time EXCEPT !.rv = -3]
        ELSE IF tzinfo_pos = Len(t) + 1 THEN (IF time.rv = 1 THEN [time EXCEPT !.rv = -5] ELSE time)
        ELSE IF CharAt(t, tzinfo_pos) = "Z"
        THEN [time EXCEPT !.rv = IF tzinfo_pos < Len(t) THEN -5 ELSE 1]
        ELSE With(parse_hh_mm_ss_ff(t, tzinfo_pos + 1, Len(t) + 1, 0, TRUE, <<>>), LAMBDA tz :
                 IF tz.rv # 0 THEN [time EXCEPT !.rv = -5]
                 ELSE IF tz.h * 3600 + tz.mi * 60 + tz.sec >= 86400 THEN [time EXCEPT !.rv = -6]
                 ELSE [time EXCEPT !.rv = 1]))))

\* datetime.fromisoformat(s): the date, one separator character of any kind,
\* the time with its offset; ParseError stands for the ValueError raised
fromisoformat(s) ==
    IF Len(s) < 7 THEN ParseError
    ELSE With(find_isoformat_datetime_separator(s), LAMBDA separator_location :
         IF separator_location < 0 THEN ParseError
         ELSE With(parse_isoformat_date(s, separator_location), LAMBDA date :
              IF ~date.ok THEN ParseError
              ELSE With(IF Len(s) > separator_location
                        THEN parse_isoformat_time(From(s, separator_location + 2))
                        ELSE TimeParts(0, <<>>), LAMBDA time :
                       IF time.rv >= 0 /\ ValidDateTime(date.y, date.mo, date.d, time.h, time.mi, time.sec)
                       THEN DateTime(date.y, date.mo, date.d, time.h, time.mi)
                       ELSE ParseError)))

\* the month whose abbreviation is b, whatever the case of its letters; 0 when none
month_of(b) ==
    With(str_lower(b), LAMBDA lower :
    With({m \in 1..12 : str_lower(MonthAbbr[m]) = lower}, LAMBDA ms :
        IF ms = {} THEN 0 ELSE SetMin(ms)))

\* datetime.strptime(s, '%d-%b-%Y %H:%M:%S'): the directive %d takes one or two
\* digits (or a space and a digit), %b a month abbreviation in any case, %Y four
\* digits, the space of the format any run of white space, %H %M %S one or two
\* digits each; the whole string must be consumed
strptime(s) ==
    With({i \in 1..Len(s) : CharAt(s, i) = "-"}, LAMBDA dashes :
    With(IF dashes = {} THEN 0 ELSE SetMin(dashes), LAMBDA p :
    With(IF p > 1 THEN SubSeq(s, 1, p - 1) ELSE "", LAMBDA dayTok :
    With(SpanEnd(s, p + 9, SpaceSet), LAMBDA a :
    With(SpanEnd(s, a, DigitSet), LAMBDA hEnd :
    With(SpanEnd(s, hEnd + 1, DigitSet), LAMBDA mEnd :
    With(SpanEnd(s, mEnd + 1, DigitSet), LAMBDA sEnd :
        LET dayOk == \/ Len(dayTok) = 1 /\ dayTok \in DigitSet \ {"0"}
                     \/ Len(dayTok) = 2 /\ AllDigits(dayTok) /\ NatOf(dayTok) \in 1..31
                     \/ /\ Len(dayTok) = 2 /\ CharAt(dayTok, 1) = " "
                        /\ CharAt(dayTok, 2) \in DigitSet \ {"0"}
            d == IF dayOk
                 THEN NatOf(IF CharAt(dayTok, 1) = " " THEN CharAt(dayTok, 2) ELSE dayTok)
                 ELSE 0
            mo == IF p + 3 <= Len(s) THEN month_of(SubSeq(s, p + 1, p + 3)) ELSE 0
            yearOk == LitAt(s, p + 4, "-") /\ DigitsAt(s, p + 5, 4)
            y == IF yearOk THEN NatOf(SubSeq(s, p + 5, p + 8)) ELSE 0
            timeOk == /\ a > p + 9
                      /\ hEnd - a \in {1, 2} /\ LitAt(s, hEnd, ":")
                      /\ mEnd - (hEnd + 1) \in {1, 2} /\ LitAt(s, mEnd, ":")
                      /\ sEnd - (mEnd + 1) \in {1, 2} /\ sEnd = Len(s) + 1
        IN  IF dayOk /\ mo # 0 /\ yearOk /\ timeOk
            THEN LET h == NatOf(SubSeq(s, a, hEnd - 1))
                     mi == NatOf(SubSeq(s, hEnd + 1, mEnd - 1))
                     sec == NatOf(SubSeq(s, mEnd + 1, sEnd - 1))
                 IN  IF ValidDateTime(y, mo, d, h, mi, sec) THEN DateTime(y, mo, d, h, mi)
                     ELSE ParseError
            ELSE ParseError)))))))

\* dt.strftime('%d %b %Y')
strftime_date(dt) == Pad2(dt.d) \o " " \o MonthAbbr[dt.mo] \o " " \o NatToStr(dt.y)

\* dt.strftime('%I:%M %p')
strftime_time(dt) ==
    Pad2(IF dt.h % 12 = 0 THEN 12 ELSE dt.h % 12) \o ":" \o Pad2(dt.mi) \o " "
        \o (IF dt.h < 12 THEN "AM" ELSE "PM")

-----------------------------------------------------------------------------
(* Python values of a raw record.  A value is its type tag and its str()   *)
(* rendering, which for these types is also what an f-string inserts.      *)
(* Lists of the model have at most 50 elements, so that v[:50] and v[:200] *)
(* of a list is the list itself.                                           *)

PyStr(s) == [t |-> "str", s |-> s]
PyNone == [t |-> "none", s |-> "None"]
PyInt(n) == [t |-> "int", s |-> NatToStr(n)]
PyList(repr) == [t |-> "list", s |-> repr]

\* bool(v)
Truthy(v) ==
    IF v.t = "str" THEN v.s # ""
    ELSE IF v.t = "int" THEN v.s # "0"
    ELSE IF v.t = "list" THEN v.s # "[]"
    ELSE FALSE

\* a raw record that is a JSON object with the fields f
Mapping(f) == [mapping |-> TRUE, f |-> f]

\* a raw record that is not a JSON object: here a JSON string
NotMapping(text) == [mapping |-> FALSE, f |-> [value |-> PyStr(text)]]

\* ann.get(key, default)
dict_get(ann, key, default) == IF key \in DOMAIN ann.f THEN ann.f[key] ELSE default

BSE_PDF_BASE_URL == "https://www.bseindia.com/xml-data/corpfiling/AttachLive"

\* ann.get(first) or ann.get(second) or default: the first value that is not
\* null or empty
first_truthy(ann, first, second, default) ==
    IF first \in DOMAIN ann.f /\ Truthy(ann.f[first]) THEN ann.f[first]
    ELSE IF second \in DOMAIN ann.f /\ Truthy(ann.f[second]) THEN ann.f[second]
    ELSE default

\* the five attributes, were each read as the first value that is not null or empty
fields_of_first_truthy(ann) ==
    [company |-> first_truthy(ann, "SLONGNAME", "COMPANY_NAME", PyStr("Unknown")),
     scrip_code |-> first_truthy(ann, "SCRIP_CD", "SYMBOL", PyStr("")).s,
     subject |-> first_truthy(ann, "NEWSSUB", "SUBJECT", PyStr("")),
     news_dt |-> first_truthy(ann, "NEWS_DT", "DATE", PyStr("")),
     attachment |-> first_truthy(ann, "ATTACHMENTNAME", "ATTACHMENT", PyStr(""))]

\* lines 201-205: the five attributes read from a record that is a mapping
fields_of(ann) ==
    [company |-> dict_get(ann, "SLONGNAME", dict_get(ann, "COMPANY_NAME", PyStr("Unknown"))),
     scrip_code |-> dict_get(ann, "SCRIP_CD", dict_get(ann, "SYMBOL", PyStr(""))).s,
     subject |-> dict_get(ann, "NEWSSUB", dict_get(ann, "SUBJECT", PyStr(""))),
     news_dt |-> dict_get(ann, "NEWS_DT", dict_get(ann, "DATE", PyStr(""))),
     attachment |-> dict_get(ann, "ATTACHMENTNAME", dict_get(ann, "ATTACHMENT", PyStr("")))]

\* a key of the scrip code and the first 50 characters of the subject alone
unique_key_without_date(scrip_code, subject, news_dt) ==
    scrip_code \o "_" \o (IF subject.t = "str" THEN Prefix(subject.s, 50) ELSE subject.s)

\* f"{scrip_code}_{subject[:50]}_{news_dt}", for a subject that can be sliced
unique_key(scrip_code, subject, news_dt) ==
    scrip_code \o "_" \o (IF subject.t = "str" THEN Prefix(subject.s, 50) ELSE subject.s)
        \o "_" \o news_dt.s

\* lines 214-226: the Date and Time display strings
date_display(news_dt, now) ==
    With(IF news_dt.t = "str"
         THEN (IF Contains(news_dt.s, "T") THEN fromisoformat(replace_Z(news_dt.s))
               ELSE strptime(news_dt.s))
         ELSE now,
         LAMBDA dt :
        IF dt.ok
        THEN [date_str |-> strftime_date(dt), time_str |-> strftime_time(dt)]
        ELSE [date_str |-> IF Truthy(news_dt) THEN Prefix(news_dt.s, 11) ELSE "", time_str |-> ""])

\* the text handed to the scorer, were it the subject without the highlights
scorer_input_subject_only(subject, hl) == subject

\* line 238: subject + " " + highlights
scorer_input(subject, hl) == subject \o " " \o hl

\* the three results, were the scorer handed the subject alone
analyse_subject_alone(subject) ==
    With(categorize_announcement(subject, ""), LAMBDA category :
    With(extract_key_highlights(subject, category), LAMBDA hl :
        [category |-> category, highlights |-> hl, scored_text |-> subject,
         implication |-> assess_investment_implication(subject, category)]))

\* lines 232-238: category, highlights and implication of a subject, and the
\* text handed to the scorer
analyse(subject) ==
    With(categorize_announcement(subject, ""), LAMBDA category :
    With(extract_key_highlights(subject, category), LAMBDA hl :
        [category |-> category, highlights |-> hl, scored_text |-> scorer_input(subject, hl),
         implication |-> assess_investment_implication(scorer_input(subject, hl), category)]))

\* ---- the raw records of the model's inputs

Prefix50 == "Board Meeting Outcome - Audited Financial Results "

\* a record of the exchange's shape
RecA ==
    Mapping([SLONGNAME |-> PyStr("Reliance Industries Ltd"), SCRIP_CD |-> PyInt(500325),
             NEWSSUB |-> PyStr(Prefix50 \o "and Dividend of Rs 5 per share"),
             NEWS_DT |-> PyStr("2024-01-15T18:30:45"), ATTACHMENTNAME |-> PyStr("a1.pdf")])

\* as RecA up to the 50th character of the subject, another text from the 51st
\* on, another company name and attachment
RecA51 ==
    Mapping([SLONGNAME |-> PyStr("RELIANCE"), SCRIP_CD |-> PyInt(500325),
             NEWSSUB |-> PyStr(Prefix50 \o "with Bonus issue in ratio 1:1 approved"),
             NEWS_DT |-> PyStr("2024-01-15T18:30:45"), ATTACHMENTNAME |-> PyStr("a2.pdf")])

\* a record of the second shape, without attachment
RecB ==
    Mapping([COMPANY_NAME |-> PyStr("Infosys Ltd"), SYMBOL |-> PyStr("INFY"),
             SUBJECT |-> PyStr("Q3_FY24 results: revenue up 12%"),
             DATE |-> PyStr("16-Jan-2024 09:05:00")])

\* another scrip code and another subject than RecB, the same date, no company
RecU ==
    Mapping([SCRIP_CD |-> PyStr("INFY_Q3"), NEWSSUB |-> PyStr("FY24 results: revenue up 12%"),
             NEWS_DT |-> PyStr("16-Jan-2024 09:05:00"), ATTACHMENTNAME |-> PyStr("")])

\* a date that is no date, a null company
RecM ==
    Mapping([SLONGNAME |-> PyNone, SCRIP_CD |-> PyInt(532540),
             NEWSSUB |-> PyStr("Credit Rating downgrade"), NEWS_DT |-> PyStr("Tomorrow morning")])

\* a null date
RecNow ==
    Mapping([SLONGNAME |-> PyStr("Tata Steel"), SCRIP_CD |-> PyInt(500470),
             NEWSSUB |-> PyStr("Order win worth 250 crore"), NEWS_DT |-> PyNone])

\* a date later than RecA's and RecB's whose display string is smaller
RecFeb ==
    Mapping([SLONGNAME |-> PyStr("Tata Motors"), SCRIP_CD |-> PyInt(500570),
             NEWSSUB |-> PyStr("Acquisition of stake approved"),
             NEWS_DT |-> PyStr("02-Feb-2024 10:00:00"), ATTACHMENTNAME |-> PyStr("f.pdf")])

\* a null subject
RecNull ==
    Mapping([SLONGNAME |-> PyStr("Wipro"), SCRIP_CD |-> PyInt(507685), NEWSSUB |-> PyNone,
             NEWS_DT |-> PyStr("2024-01-15T18:30:45")])

\* a subject that is a list
RecList ==
    Mapping([SLONGNAME |-> PyStr("Wipro"), SCRIP_CD |-> PyInt(507685),
             NEWSSUB |-> PyList("['Dividend']"), NEWS_DT |-> PyStr("2024-01-15T18:30:45")])

\* a date in neither format that reads like a display date
RecBadDay ==
    Mapping([SLONGNAME |-> PyStr("Tata Steel"), SCRIP_CD |-> PyInt(500470),
             NEWSSUB |-> PyStr("Order win worth 250 crore"), NEWS_DT |-> PyStr("15 Jan 2024 10:00")])

\* a record of the second shape without date field
RecParseError ==
    Mapping([COMPANY_NAME |-> PyStr("Infosys Ltd"), SYMBOL |-> PyStr("INFY"),
             SUBJECT |-> PyStr("Q3_FY24 results: revenue up 12%")])

\* a record that carries both names of every attribute
RecBoth ==
    Mapping([SLONGNAME |-> PyStr("Reliance Industries Ltd"), COMPANY_NAME |-> PyStr("RIL"),
             SCRIP_CD |-> PyInt(500325), SYMBOL |-> PyStr("RELIANCE"),
             NEWSSUB |-> PyStr(Prefix50 \o "and Dividend of Rs 5 per share"),
             SUBJECT |-> PyStr("Acquisition of stake approved"),
             NEWS_DT |-> PyStr("2024-01-15T18:30:45"), DATE |-> PyStr("16-Jan-2024 09:05:00"),
             ATTACHMENTNAME |-> PyStr("a1.pdf"), ATTACHMENT |-> PyStr("b1.pdf")])

\* a record whose first-named fields are present but null or empty
RecNullFirst ==
    Mapping([SLONGNAME |-> PyNone, COMPANY_NAME |-> PyStr("Bharti Airtel"),
             SCRIP_CD |-> PyStr(""), SYMBOL |-> PyStr("BHARTI"),
             NEWSSUB |-> PyStr(""), SUBJECT |-> PyStr("Credit Rating downgrade"),
             NEWS_DT |-> PyNone, DATE |-> PyStr("16-Jan-2024 09:05:00"),
             ATTACHMENTNAME |-> PyStr(""), ATTACHMENT |-> PyStr("b2.pdf")])

\* a record with none of the ten fields
RecBare == Mapping([CATEGORYNAME |-> PyStr("Result")])

\* RecA with the instant written with the suffix Z
RecZ ==
    Mapping([SLONGNAME |-> PyStr("Reliance Industries Ltd"), SCRIP_CD |-> PyInt(500325),
             NEWSSUB |-> PyStr(Prefix50 \o "and Dividend of Rs 5 per share"),
             NEWS_DT |-> PyStr("2024-01-15T18:30:45Z"), ATTACHMENTNAME |-> PyStr("a1.pdf")])

\* RecZ with the same instant written with the offset +00:00
RecPlus ==
    Mapping([SLONGNAME |-> PyStr("Reliance Industries Ltd"), SCRIP_CD |-> PyInt(500325),
             NEWSSUB |-> PyStr(Prefix50 \o "and Dividend of Rs 5 per share"),
             NEWS_DT |-> PyStr("2024-01-15T18:30:45+00:00"), ATTACHMENTNAME |-> PyStr("a1.pdf")])

\* RecZ five seconds later
RecSec ==
    Mapping([SLONGNAME |-> PyStr("Reliance Industries Ltd"), SCRIP_CD |-> PyInt(500325),
             NEWSSUB |-> PyStr(Prefix50 \o "and Dividend of Rs 5 per share"),
             NEWS_DT |-> PyStr("2024-01-15T18:30:50Z"), ATTACHMENTNAME |-> PyStr("a1.pdf")])

\* the instant of RecA in the basic form, without dashes and colons
RecBasic ==
    Mapping([SLONGNAME |-> PyStr("Reliance Industries Ltd"), SCRIP_CD |-> PyInt(500325),
             NEWSSUB |-> PyStr(Prefix50 \o "and Dividend of Rs 5 per share"),
             NEWS_DT |-> PyStr("20240115T183045"), ATTACHMENTNAME |-> PyStr("a1.pdf")])

\* a subject that is the text of that list
RecListText ==
    Mapping([SLONGNAME |-> PyStr("Wipro"), SCRIP_CD |-> PyInt(507685),
             NEWSSUB |-> PyStr("['Dividend']"), NEWS_DT |-> PyStr("2024-01-15T18:30:45")])

\* RecListText with the instant written with the suffix Z
RecListTextZ ==
    Mapping([SLONGNAME |-> PyStr("Wipro"), SCRIP_CD |-> PyInt(507685),
             NEWSSUB |-> PyStr("['Dividend']"), NEWS_DT |-> PyStr("2024-01-15T18:30:45Z")])

\* not a mapping
RecText == NotMapping("no data")

\* subjects for the rating: two positive keywords and a growth figure
RecRise ==
    Mapping([SLONGNAME |-> PyStr("Tata Steel"), SCRIP_CD |-> PyInt(500470),
             NEWSSUB |-> PyStr("Record bonus issue; revenue up 12%"),
             NEWS_DT |-> PyStr("2024-01-15T18:30:45")])

\* a dividend, no figure
RecDiv ==
    Mapping([SLONGNAME |-> PyStr("Wipro"), SCRIP_CD |-> PyInt(507685),
             NEWSSUB |-> PyStr("Interim Dividend declared today"),
             NEWS_DT |-> PyStr("2024-01-15T18:30:45")])

\* a dividend with a figure
RecDivPay ==
    Mapping([SLONGNAME |-> PyStr("Wipro"), SCRIP_CD |-> PyInt(507685),
             NEWSSUB |-> PyStr("Dividend: Rs 5 per share"),
             NEWS_DT |-> PyStr("2024-01-15T18:30:45")])

\* a dividend, a subject that ends in "profit" and starts with "Decline"
RecJoin ==
    Mapping([SLONGNAME |-> PyStr("Wipro"), SCRIP_CD |-> PyInt(507685),
             NEWSSUB |-> PyStr("Decline in dividend and profit"),
             NEWS_DT |-> PyStr("2024-01-15T18:30:45")])

\* a dividend and a negative keyword
RecDivLoss ==
    Mapping([SLONGNAME |-> PyStr("Wipro"), SCRIP_CD |-> PyInt(507685),
             NEWSSUB |-> PyStr("Final dividend and loss of licence"),
             NEWS_DT |-> PyStr("2024-01-15T18:30:45")])

AllRecords ==
    {RecA, RecA51, RecB, RecU, RecM, RecNow, RecFeb, RecNull, RecList, RecListText, RecText,
     RecBadDay, RecParseError, RecBoth, RecNullFirst, RecBare, RecZ, RecPlus, RecSec,
     RecRise, RecDiv, RecDivPay, RecJoin, RecDivLoss, RecBasic, RecListTextZ}

\* analyse, evaluated once for the subjects of the model's records
AnalysisOfRecords ==
    LET subjects == {fields_of(r).subject.s : r \in {q \in AllRecords : q.mapping}}
    IN  [sub \in subjects |-> analyse(sub)]

analysis_of(subject) ==
    IF subject \in DOMAIN AnalysisOfRecords THEN AnalysisOfRecords[subject] ELSE analyse(subject)

\* ---- the body of the for loop

\* the except clause that ends the body were absent
record_exception_propagates == "raise"

\* lines 252-254: except Exception: print, continue
record_exception_handler == "continue"

\* the record raises before its key is formed: ann.get on a value that is no
\* mapping (AttributeError), subject[:50] on None or a number (TypeError)
raises_before_key(ann) ==
    \/ ~ann.mapping
    \/ fields_of(ann).subject.t \notin {"str", "list"}

\* the record raises after its key was added: a list subject in
\* subject + " " + description (TypeError)
raises_after_key(ann) == ann.mapping /\ fields_of(ann).subject.t = "list"

\* lines 240-250: the Announcement of a record that does not raise
announcement_of(ann, now) ==
    With(fields_of(ann), LAMBDA f :
    With(date_display(f.news_dt, now), LAMBDA dd :
    With(analysis_of(f.subject.s), LAMBDA a :
        [Company |-> f.company, Scrip_Code |-> f.scrip_code, Category |-> a.category,
         Subject |-> Prefix(f.subject.s, 200), Date |-> dd.date_str, Time |-> dd.time_str,
         Key_Highlights |-> a.highlights, Investment_Implication |-> a.implication,
         PDF_Link |-> IF Truthy(f.attachment) THEN BSE_PDF_BASE_URL \o "/" \o f.attachment.s
                      ELSE ""])))

FunctionCall(fn, text, category, returned) ==
    [fn |-> fn, text |-> text, category |-> category, returned |-> returned]

\* lines 232, 235, 238: the calls made for a subject, in the order made; a
\* subject that is a list raises TypeError in the categorizer
calls_for(subject) ==
    IF subject.t = "list"
    THEN <<FunctionCall("categorize_announcement", subject.s, "", "TypeError")>>
    ELSE With(analysis_of(subject.s), LAMBDA a :
             <<FunctionCall("categorize_announcement", subject.s, "", a.category),
               FunctionCall("extract_key_highlights", subject.s, a.category, a.highlights),
               FunctionCall("assess_investment_implication", a.scored_text, a.category,
                            a.implication)>>)

\* lines 200-254: one pass of the loop body over ann with the set seen_so_far;
\* outcome "raised" | "duplicate" | "appended", the new set, the appended
\* items, the calls made to the three text functions
process_record(ann, seen_so_far, now) ==
    IF raises_before_key(ann)
    THEN [outcome |-> "raised", seen |-> seen_so_far, out |-> <<>>, calls |-> <<>>]
    ELSE With(fields_of(ann), LAMBDA f :
         With(unique_key(f.scrip_code, f.subject, f.news_dt), LAMBDA key :
             IF key \in seen_so_far
             THEN [outcome |-> "duplicate", seen |-> seen_so_far, out |-> <<>>, calls |-> <<>>]
             ELSE IF raises_after_key(ann)
             THEN [outcome |-> "raised", seen |-> seen_so_far \cup {key}, out |-> <<>>,
                   calls |-> calls_for(f.subject)]
             ELSE [outcome |-> "appended", seen |-> seen_so_far \cup {key},
                   out |-> <<announcement_of(ann, now)>>, calls |-> calls_for(f.subject)]))

\* lines 196-256: the list process_announcements returns for the list data,
\* the loop run from position k with the Announcements and the keys so far
RECURSIVE process_from(_, _, _, _, _)
process_from(data, k, processed_so_far, seen_so_far, now) ==
    IF k > Len(data) THEN processed_so_far
    ELSE With(process_record(data[k], seen_so_far, now), LAMBDA r :
         With(processed_so_far \o r.out, LAMBDA appended :
             process_from(data, k + 1, appended, r.seen, now)))

process_announcements(data, now) == process_from(data, 1, <<>>, {}, now)

\* one iteration of the for loop of process_announcements
ProcessRecord ==
    /\ p_pc = "loop" /\ p_i <= Len(announcements_data)
    /\ \E r \in {process_record(announcements_data[p_i], seen, clock)} :
          /\ seen' = r.seen
          /\ processed' = processed \o r.out
          /\ p_calls' = p_calls \o r.calls
          /\ IF r.outcome = "raised" /\ record_exception_handler # "continue"
             THEN p_pc' = "aborted" /\ p_i' = p_i
             ELSE p_pc' = p_pc /\ p_i' = p_i + 1
    /\ UNCHANGED <<announcements_data, hvars, mvars>>

\* line 256: return processed
ProcessReturn ==
    /\ p_pc = "loop" /\ p_i > Len(announcements_data)
    /\ p_pc' = "returned"
    /\ UNCHANGED <<announcements_data, p_i, processed, seen, p_calls, hvars, mvars>>

\* ---- process_announcements called on a list of raw records

\* bound: records in the argument of process_announcements
MaxRecords == 4

ProcessPool == {RecA, RecA51, RecB, RecU, RecNull, RecList, RecText}

RECURSIVE SeqsUpTo(_, _)
SeqsUpTo(S, n) ==
    IF n = 0 THEN {<<>>}
    ELSE LET shorter == SeqsUpTo(S, n - 1)
         IN  shorter \cup {Append(q, x) : q \in {t \in shorter : Len(t) = n - 1}, x \in S}

InitProcess ==
    /\ HIdle /\ MIdle
    /\ announcements_data \in SeqsUpTo(ProcessPool, MaxRecords)
    /\ p_i = 1 /\ processed = <<>> /\ seen = {} /\ p_pc = "loop" /\ p_calls = <<>>

NextProcess == ProcessRecord \/ ProcessReturn

SpecProcess == InitProcess /\ [][NextProcess]_vars

\* ---- C1, C5

\* the k-th smallest element of a set of numbers
NthOf(S, k) == CHOOSE i \in S : Cardinality({j \in S : j <= i}) = k

\* the Announcements of the records at the positions S, in input order
AnnouncementsAt(S) ==
    [k \in 1..Cardinality(S) |-> announcement_of(announcements_data[NthOf(S, k)], clock)]

\* the record is not a mapping, or its subject is not a string: its processing raises
Raises(ann) == ~ann.mapping \/ fields_of(ann).subject.t # "str"

NoRecordRaises == \A i \in 1..Len(announcements_data) : ~Raises(announcements_data[i])

\* the three components of the dedup key: the scrip code as a string, the first
\* 50 characters of the subject, the raw date field
DedupComponents(ann) ==
    LET f == fields_of(ann) IN <<f.scrip_code, Prefix(f.subject.s, 50), f.news_dt>>

\* the positions of the records that are the first to carry their components
FirstOfComponents ==
    {i \in 1..Len(announcements_data) :
        \A j \in 1..(i - 1) :
            DedupComponents(announcements_data[j]) # DedupComponents(announcements_data[i])}

\* C1: when no record of the input raises, the output of process_announcements
\* holds exactly one Announcement per distinct dedup key (scrip code, first 50
\* characters of the subject, raw date field), built from the first record in
\* input order that carries the key.
C1_OnePerDistinctKey ==
    (p_pc = "returned" /\ NoRecordRaises) => processed = AnnouncementsAt(FirstOfComponents)

\* the key string the code forms, for a record that reaches line 208
KeyString(ann) ==
    LET f == fields_of(ann)
    IN  f.scrip_code \o "_" \o (IF f.subject.t = "str" THEN Prefix(f.subject.s, 50) ELSE f.subject.s)
            \o "_" \o f.news_dt.s

ReachesKey(ann) == ann.mapping /\ fields_of(ann).subject.t \in {"str", "list"}

\* the positions of the records that do not raise and whose key string no
\* earlier record carried
FirstOfKeyString ==
    {i \in 1..Len(announcements_data) :
        /\ ~Raises(announcements_data[i])
        /\ \A j \in 1..(i - 1) :
              ReachesKey(announcements_data[j])
                  => KeyString(announcements_data[j]) # KeyString(announcements_data[i])}

\* what holds of deduplication: one Announcement per distinct key string, from
\* the first record that carries it, also for records that differ from the
\* 51st character of the subject on
OnePerKeyString ==
    (p_pc = "returned" /\ NoRecordRaises) => processed = AnnouncementsAt(FirstOfKeyString)

\* C5: process_announcements never aborts on a bad record: the call returns
\* normally after the loop has visited every record, a record whose processing
\* raises contributes no Announcement, and the records that follow it are
\* processed as usual.
C5_BadRecordNeverAborts ==
    /\ p_pc # "aborted"
    /\ p_pc = "returned" =>
          /\ p_i = Len(announcements_data) + 1
          /\ processed = AnnouncementsAt(FirstOfKeyString)

C5_Witness ==
    /\ p_pc = "returned"
    /\ announcements_data = <<RecText, RecNull, RecList, RecB>>
    /\ Len(processed) = 1
    /\ processed[1].Company = PyStr("Infosys Ltd")

\* ---- C15

\* the Announcement of the record at position i of FirstOfKeyString
AnnouncementOfPosition(i) == processed[Cardinality({j \in FirstOfKeyString : j <= i})]

\* the positions of the records that survive deduplication: they reach line
\* 208 and no earlier record put their key string into the set
Survivors ==
    {i \in 1..Len(announcements_data) :
        /\ ReachesKey(announcements_data[i])
        /\ \A j \in 1..(i - 1) :
              ReachesKey(announcements_data[j])
                  => KeyString(announcements_data[j]) # KeyString(announcements_data[i])}

\* the number of calls logged before those of the survivor at position i: three
\* for every earlier survivor but one whose categorizer call raised
CallsBefore(i) ==
    3 * Cardinality({j \in Survivors : j < i /\ ~Raises(announcements_data[j])})
        + Cardinality({j \in Survivors : j < i /\ Raises(announcements_data[j])})

\* C15: for every record that survives deduplication and is not dropped by a
\* failure, the loop called the Categorizer on the subject, then the Extractor
\* on the subject with the category just returned, then the Scorer with that
\* category on the subject followed by a space and the highlights just
\* returned; the three results are those of the record's Announcement, and no
\* call was made for a duplicate.
C15_CategorizeExtractScore ==
    p_pc = "returned" =>
        /\ Len(p_calls) = CallsBefore(Len(announcements_data) + 1)
        /\ \A i \in FirstOfKeyString :
              LET subject == fields_of(announcements_data[i]).subject.s
                  first == p_calls[CallsBefore(i) + 1]
                  second == p_calls[CallsBefore(i) + 2]
                  third == p_calls[CallsBefore(i) + 3]
                  a == AnnouncementOfPosition(i)
              IN  /\ first.fn = "categorize_announcement" /\ first.text = subject
                  /\ second.fn = "extract_key_highlights" /\ second.text = subject
                  /\ second.category = first.returned
                  /\ third.fn = "assess_investment_implication"
                  /\ third.category = first.returned
                  /\ third.text = subject \o " " \o second.returned
                  /\ a.Category = first.returned /\ a.Key_Highlights = second.returned
                  /\ a.Investment_Implication = third.returned

\* a record, its duplicate, a record whose categorizer call raises, a record:
\* seven calls, the scorer's text ending in the highlights
C15_Witness ==
    /\ p_pc = "returned"
    /\ announcements_data = <<RecB, RecB, RecList, RecA>>
    /\ Len(p_calls) = 7
    /\ p_calls[2].category = "Financial Results" /\ p_calls[2].returned = "GROWTH: 12"
    /\ p_calls[3].text = "Q3_FY24 results: revenue up 12% GROWTH: 12"
    /\ p_calls[4].returned = "TypeError"
    /\ p_calls[7].fn = "assess_investment_implication"

-----------------------------------------------------------------------------
(* process_announcements called on records with all kinds of date fields *)

DatePool == {RecA, RecB, RecM, RecBadDay, RecParseError, RecNow}

InitDates ==
    /\ HIdle /\ MIdle
    /\ announcements_data \in SeqsUpTo(DatePool, MaxRecords)
    /\ p_i = 1 /\ processed = <<>> /\ seen = {} /\ p_pc = "loop" /\ p_calls = <<>>

SpecDates == InitDates /\ [][NextProcess]_vars

\* ---- C12, C13

\* the date field of the record is a string in neither of the two formats
MalformedDate(ann) ==
    /\ ann.mapping /\ fields_of(ann).news_dt.t = "str"
    /\ ~fromisoformat(replace_Z(fields_of(ann).news_dt.s)).ok
    /\ ~strptime(fields_of(ann).news_dt.s).ok

\* the positions of the records with a malformed date that do not raise and
\* are no duplicates
MalformedKept == {i \in FirstOfKeyString : MalformedDate(announcements_data[i])}

\* every record that does not raise and is no duplicate has its Announcement,
\* in input order, with its scrip code
EveryRecordKept ==
    /\ p_i = Len(announcements_data) + 1
    /\ Len(processed) = Cardinality(FirstOfKeyString)
    /\ \A i \in FirstOfKeyString :
          AnnouncementOfPosition(i).Scrip_Code = fields_of(announcements_data[i]).scrip_code

\* C12: a record with a malformed date string does not raise and is
\* not dropped, the records after it are processed as usual, its time display
\* is empty and its date display is a sentinel: one value, the same for every
\* malformed date.
C12_MalformedDateGivesSentinel ==
    /\ p_pc # "aborted"
    /\ p_pc = "returned" =>
          /\ EveryRecordKept
          /\ \A i \in MalformedKept : AnnouncementOfPosition(i).Time = ""
          /\ \A i, j \in MalformedKept :
                AnnouncementOfPosition(i).Date = AnnouncementOfPosition(j).Date

\* what holds of a malformed date string: its record does not raise and is
\* not dropped, the records after it are processed as usual, its time display
\* is empty and its date display is the first 11 characters of the malformed
\* string itself (lines 224-226), neither one sentinel nor the current time
MalformedDateShowsItsText ==
    /\ p_pc # "aborted"
    /\ p_pc = "returned" =>
          /\ EveryRecordKept
          /\ \A i \in MalformedKept :
                /\ AnnouncementOfPosition(i).Time = ""
                /\ AnnouncementOfPosition(i).Date =
                       Prefix(fields_of(announcements_data[i]).news_dt.s, 11)

\* C13: whenever the date field is a string in neither format, the
\* Announcement's Date and Time display strings are those of the current time.
C13_MalformedDateFallsBackToNow ==
    p_pc = "returned" =>
        \A i \in MalformedKept :
            /\ AnnouncementOfPosition(i).Date = strftime_date(clock)
            /\ AnnouncementOfPosition(i).Time = strftime_time(clock)

\* what holds of the fallback to now: it is taken when the date field is no
\* string (null, a number), never when a string fails to parse
NowOnlyForNonStrings ==
    p_pc = "returned" =>
        \A i \in FirstOfKeyString :
            LET a == AnnouncementOfPosition(i)
                news_dt == fields_of(announcements_data[i]).news_dt
            IN  /\ news_dt.t # "str" => (a.Date = strftime_date(clock) /\ a.Time = strftime_time(clock))
                /\ MalformedDate(announcements_data[i]) => a.Time = ""

-----------------------------------------------------------------------------
(* process_announcements called on records of both shapes, of both at once *)
(* and of neither                                                          *)

ShapePool == {RecA, RecB, RecBoth, RecNullFirst, RecBare}

InitShapes ==
    /\ HIdle /\ MIdle
    /\ announcements_data \in SeqsUpTo(ShapePool, MaxRecords)
    /\ p_i = 1 /\ processed = <<>> /\ seen = {} /\ p_pc = "loop" /\ p_calls = <<>>

SpecShapes == InitShapes /\ [][NextProcess]_vars

\* ---- C14

\* the value of the first-named key when present, otherwise of the second-named
\* key when present, otherwise the default
FirstPresent(ann, first, second, default) ==
    IF first \in DOMAIN ann.f THEN ann.f[first]
    ELSE IF second \in DOMAIN ann.f THEN ann.f[second]
    ELSE default

NoCompanyField(ann) == "SLONGNAME" \notin DOMAIN ann.f /\ "COMPANY_NAME" \notin DOMAIN ann.f

\* C14: each attribute of an Announcement is read through the ordered
\* fallback first-named key, second-named key, default ('Unknown' for the
\* company, the empty string for the others); a record with no company field
\* has company 'Unknown'.
C14_OrderedFallback ==
    p_pc = "returned" =>
        /\ Len(processed) = Cardinality(FirstOfKeyString)
        /\ \A i \in FirstOfKeyString :
              LET ann == announcements_data[i]
                  a == AnnouncementOfPosition(i)
                  news_dt == FirstPresent(ann, "NEWS_DT", "DATE", PyStr(""))
                  attachment == FirstPresent(ann, "ATTACHMENTNAME", "ATTACHMENT", PyStr(""))
              IN  /\ a.Company = FirstPresent(ann, "SLONGNAME", "COMPANY_NAME", PyStr("Unknown"))
                  /\ a.Scrip_Code = FirstPresent(ann, "SCRIP_CD", "SYMBOL", PyStr("")).s
                  /\ a.Subject = Prefix(FirstPresent(ann, "NEWSSUB", "SUBJECT", PyStr("")).s, 200)
                  /\ a.Date = date_display(news_dt, clock).date_str
                  /\ a.PDF_Link = (IF Truthy(attachment) THEN BSE_PDF_BASE_URL \o "/" \o attachment.s
                                   ELSE "")
                  /\ NoCompanyField(ann) => a.Company = PyStr("Unknown")

\* a record with both names of every attribute, one whose first-named fields
\* are null or empty, one with no field at all
C14_Witness ==
    /\ p_pc = "returned"
    /\ announcements_data = <<RecBoth, RecNullFirst, RecBare>>
    /\ Len(processed) = 3
    /\ processed[1].Company = PyStr("Reliance Industries Ltd") /\ processed[1].Scrip_Code = "500325"
    /\ processed[1].Date = "15 Jan 2024"
    /\ processed[2].Company = PyNone /\ processed[2].Scrip_Code = "" /\ processed[2].Subject = ""
    /\ processed[2].PDF_Link = ""
    /\ processed[3].Company = PyStr("Unknown") /\ processed[3].Scrip_Code = ""

-----------------------------------------------------------------------------
(* main: configuration, the fetch loop, the sort, the report and its       *)
(* distribution                                                            *)

\* s.replace('_', '')
RECURSIVE without_underscores(_)
without_underscores(s) ==
    IF s = "" THEN ""
    ELSE (IF Head(s) = "_" THEN "" ELSE CharAt(s, 1)) \o without_underscores(Tail(s))

\* int(s) for an ASCII string: white space around, an optional sign, decimal
\* digits with single underscores between them
py_int(s) ==
    With(str_strip(s), LAMBDA t :
        LET signed == t # "" /\ CharAt(t, 1) \in {"+", "-"}
            body == IF signed THEN From(t, 2) ELSE t
            ok == /\ body # ""
                  /\ \A k \in 1..Len(body) : CharAt(body, k) \in DigitSet \cup {"_"}
                  /\ CharAt(body, 1) # "_" /\ CharAt(body, Len(body)) # "_"
                  /\ \A k \in 1..(Len(body) - 1) :
                        ~(CharAt(body, k) = "_" /\ CharAt(body, k + 1) = "_")
            n == NatOf(without_underscores(body))
        IN  IF ok THEN [ok |-> TRUE, n |-> IF CharAt(t, 1) = "-" THEN 0 - n ELSE n]
            ELSE [ok |-> FALSE, n |-> 0])

\* the default of os.environ.get('DAYS_BACK', 4)
DEFAULT_DAYS_BACK == 4

\* bool(os.environ.get(name)) for a value of environ
env_truthy(e) == e.set /\ e.v # ""

\* dt - timedelta(days=1), within the years of the model
prev_day(dt) ==
    IF dt.d > 1 THEN [dt EXCEPT !.d = dt.d - 1]
    ELSE IF dt.mo > 1 THEN [dt EXCEPT !.mo = dt.mo - 1, !.d = DaysInMonth(dt.y, dt.mo - 1)]
    ELSE [dt EXCEPT !.y = dt.y - 1, !.mo = 12, !.d = 31]

\* dt - timedelta(days=k)
RECURSIVE minus_days(_, _)
minus_days(dt, k) == IF k = 0 THEN dt ELSE minus_days(prev_day(dt), k - 1)

\* the first instant of the day after dt
next_midnight(dt) ==
    IF dt.d < DaysInMonth(dt.y, dt.mo) THEN [dt EXCEPT !.d = dt.d + 1, !.h = 0, !.mi = 0]
    ELSE IF dt.mo < 12 THEN [dt EXCEPT !.mo = dt.mo + 1, !.d = 1, !.h = 0, !.mi = 0]
    ELSE [dt EXCEPT !.y = dt.y + 1, !.mo = 1, !.d = 1, !.h = 0, !.mi = 0]

\* dt.strftime('%Y%m%d'), for a year of four digits
strftime_ymd(dt) == NatToStr(dt.y) \o Pad2(dt.mo) \o Pad2(dt.d)

\* ---- what the exchange may answer to the two requests of one fetch

Response(warmup, query, status, body, table, rows) ==
    [warmup |-> warmup, query |-> query, status |-> status, body |-> body, table |-> table,
     rows |-> rows]

\* the answers of the model: warmup and query tell whether the request went
\* through, status is the HTTP status of the query, body is "invalid" (no
\* JSON), "array" or "object", table is "absent", "null" or "list"
Tables == {<<>>, <<RecA, RecB>>, <<RecA51>>, <<RecFeb>>}

Responses ==
    {Response(FALSE, TRUE, 200, "object", "list", <<RecA>>),
     Response(TRUE, FALSE, 200, "object", "list", <<RecA>>),
     Response(TRUE, TRUE, 503, "object", "list", <<RecA>>),
     Response(TRUE, TRUE, 200, "invalid", "absent", <<>>),
     Response(TRUE, TRUE, 200, "array", "absent", <<>>),
     Response(TRUE, TRUE, 200, "object", "absent", <<>>),
     Response(TRUE, TRUE, 200, "object", "null", <<>>)}
    \cup {Response(TRUE, TRUE, 200, "object", "list", rows) : rows \in Tables}

\* lines 74-88 of get_bse_announcements_by_date: the value returned for an
\* answer, and whether the try block ran to its return
get_bse_announcements_by_date(resp) ==
    IF ~resp.warmup THEN [ok |-> FALSE, returned |-> <<>>]               \* session.get raises
    ELSE IF ~resp.query THEN [ok |-> FALSE, returned |-> <<>>]           \* session.get raises
    ELSE IF resp.status >= 400 THEN [ok |-> FALSE, returned |-> <<>>]    \* raise_for_status
    ELSE IF resp.body = "invalid" THEN [ok |-> FALSE, returned |-> <<>>] \* response.json()
    ELSE IF resp.body = "array" THEN [ok |-> FALSE, returned |-> <<>>]   \* data.get
    ELSE IF resp.table = "absent" THEN [ok |-> TRUE, returned |-> <<>>]  \* the default []
    ELSE IF resp.table = "null" THEN [ok |-> FALSE, returned |-> <<>>]   \* len(None)
    ELSE [ok |-> TRUE, returned |-> resp.rows]

Request(url) == [kind |-> "request", what |-> url]

\* time.sleep(seconds), the seconds in tenths
Sleep(tenths) == [kind |-> "sleep", what |-> tenths]

\* lines 74-79, were the pause and the query not kept behind the warm-up
\* request: the query is sent also when the warm-up request raised
fetch_events_query_anyway(resp) ==
    IF ~resp.warmup THEN <<Request("warm-up"), Request("api")>>
    ELSE <<Request("warm-up"), Sleep(5), Request("api")>>

\* lines 74-79: the requests and pauses of one fetch, in order: the warm-up
\* request, then, when it returned, the pause of half a second and the
\* query; an exception of the warm-up request leaves the try block
fetch_events(resp) ==
    IF ~resp.warmup THEN <<Request("warm-up")>>
    ELSE <<Request("warm-up"), Sleep(5), Request("api")>>

\* ---- the sort of line 466

\* the printable ASCII characters in the order of their code points, from
\* the space (32) to the underscore (95) and from a (97) to the tilde (126)
AsciiLow == " !\"#$%&'()*+,-./0123456789:;<=>?@ABCDEFGHIJKLMNOPQRSTUVWXYZ[\\]^_"
AsciiHigh == "abcdefghijklmnopqrstuvwxyz{|}~"

\* ord(c)
CodePoint(c) ==
    IF c = "\t" THEN 9 ELSE IF c = "\n" THEN 10 ELSE IF c = "\f" THEN 12 ELSE IF c = "\r" THEN 13
    ELSE IF c \in CharsOf(AsciiLow) THEN IndexIn(AsciiLow, c) + 31
    ELSE IndexIn(AsciiHigh, c) + 96

\* a < b for two strings
str_lt(a, b) ==
    LET n == IF Len(a) < Len(b) THEN Len(a) ELSE Len(b)
        diffs == {k \in 1..n : CharAt(a, k) # CharAt(b, k)}
    IN  IF diffs = {} THEN Len(a) < Len(b)
        ELSE CodePoint(CharAt(a, SetMin(diffs))) < CodePoint(CharAt(b, SetMin(diffs)))

\* the list left as process_announcements returned it
keep_order(data) == data

\* data.sort(key=lambda x: x['Date'], reverse=True): descending by the Date
\* string, items with equal dates in their former order.  Each item goes
\* behind the items placed so far whose date is not smaller than its own.
RECURSIVE sort_from(_, _, _)
sort_from(data, k, sorted) ==
    IF k > Len(data) THEN sorted
    ELSE With({j \in 1..Len(sorted) : str_lt(sorted[j].Date, data[k].Date)}, LAMBDA smaller :
         With(IF smaller = {} THEN Len(sorted) + 1 ELSE SetMin(smaller), LAMBDA at :
         With(SubSeq(sorted, 1, at - 1) \o <<data[k]>> \o SubSeq(sorted, at, Len(sorted)),
              LAMBDA placed : sort_from(data, k + 1, placed))))

sort_by_date_reverse(data) == sort_from(data, 1, <<>>)

\* ---- the configurations of the model's runs

EnvSet(v) == [set |-> TRUE, v |-> v]

Environ(days, dir, credentials, sheet, address, password) ==
    [DAYS_BACK |-> days, OUTPUT_DIR |-> dir, GOOGLE_CREDENTIALS |-> credentials,
     GOOGLE_SHEET_ID |-> sheet, EMAIL_ADDRESS |-> address, EMAIL_PASSWORD |-> password]

Configurations ==
    {[environ |-> Environ(Unset, Unset, EnvSet("{}"), EnvSet(""), EnvSet("a@x.in"), EnvSet("pw")),
      google |-> TRUE],
     [environ |-> Environ(EnvSet("2"), EnvSet("reports"), Unset, EnvSet("sheet-1"), EnvSet("a@x.in"), Unset),
      google |-> TRUE],
     [environ |-> Environ(EnvSet(" 1 "), EnvSet(""), EnvSet("{}"), EnvSet("sheet-1"), EnvSet("a@x.in"), EnvSet("pw")),
      google |-> FALSE],
     [environ |-> Environ(EnvSet("1"), Unset, EnvSet("{}"), EnvSet("sheet-1"), EnvSet("a@x.in"), EnvSet("pw")),
      google |-> TRUE],
     [environ |-> Environ(EnvSet("0"), Unset, Unset, Unset, Unset, Unset), google |-> FALSE],
     [environ |-> Environ(EnvSet("four"), Unset, Unset, Unset, Unset, Unset), google |-> TRUE]}

\* bound: raw records fetched in one run
MaxRaw == 3

\* bound: midnights that pass during one run
MaxMidnights == 1

\* the remote sheet as an earlier run left it: a header row, two rows, a stamp
SheetOfLastRun ==
    [range_AI |-> <<<<PyStr("Company")>>, <<PyStr("Old Row 1")>>, <<PyStr("Old Row 2")>>>>,
     K1 |-> "Last Updated: 29 Feb 2024 06:00 PM"]

\* ---- the run of main

Init ==
    /\ HIdle /\ PIdle
    /\ m_pc = "start"
    /\ \E c \in Configurations : environ = c.environ /\ GOOGLE_AVAILABLE = c.google
    /\ days_back = 0 /\ md_i = 0 /\ all_announcements = <<>> /\ fetches = <<>> /\ calls = <<>>
    /\ output = <<>> /\ clock = StartOfRun /\ midnights = 0
    /\ output_files = {} /\ sheet_requests = <<>> /\ remote_sheet = SheetOfLastRun

\* line 451: days_back = int(os.environ.get('DAYS_BACK', 4)); a text that is
\* no number raises ValueError, which nothing catches; then line 456 calls
\* get_bse_announcements_multi_day, which starts its loop
ReadDaysBack ==
    /\ m_pc = "start"
    /\ \E n \in {IF environ.DAYS_BACK.set THEN py_int(environ.DAYS_BACK.v)
                 ELSE [ok |-> TRUE, n |-> DEFAULT_DAYS_BACK]} :
          IF n.ok THEN days_back' = n.n /\ m_pc' = "fetch"
          ELSE days_back' = days_back /\ m_pc' = "crashed"
    /\ md_i' = 0 /\ all_announcements' = <<>>
    /\ UNCHANGED <<environ, GOOGLE_AVAILABLE, fetches, calls, output, clock, midnights, dvars, hvars, pvars>>

\* lines 95-99: one iteration of the loop of get_bse_announcements_multi_day:
\* the date is read off the clock now, the fetch of that date returns its
\* rows or, after any exception, the empty list, and the rows are appended
FetchDate ==
    /\ m_pc = "fetch" /\ md_i < days_back
    /\ \E resp \in Responses :
          \E daily_data \in {get_bse_announcements_by_date(resp)} :
              /\ Len(all_announcements) + Len(daily_data.returned) <= MaxRaw
              /\ fetches' = Append(fetches, [target_date |-> minus_days(clock, md_i),
                                             ok |-> daily_data.ok,
                                             returned |-> daily_data.returned,
                                             events |-> fetch_events(resp) \o <<Sleep(10)>>,
                                             warmup_returned |-> resp.warmup])
              /\ all_announcements' = all_announcements \o daily_data.returned
    /\ md_i' = md_i + 1
    /\ UNCHANGED <<m_pc, environ, GOOGLE_AVAILABLE, days_back, calls, output, clock, midnights, dvars,
                   hvars, pvars>>

\* line 101 and lines 456-461: the loop is over, main hands the list to
\* process_announcements
StartProcess ==
    /\ m_pc = "fetch" /\ md_i >= days_back
    /\ m_pc' = "process"
    /\ announcements_data' = all_announcements
    /\ p_i' = 1 /\ processed' = <<>> /\ seen' = {} /\ p_pc' = "loop" /\ p_calls' = <<>>
    /\ UNCHANGED <<environ, GOOGLE_AVAILABLE, days_back, md_i, all_announcements, fetches, calls,
                   output, clock, midnights, dvars, hvars>>

\* os.makedirs(output_dir, exist_ok=True): whether it can return, whether it
\* can raise; '' always raises, '.' exists, any other path is up to the disk
makedirs_returns(output_dir) == IF output_dir = "" THEN {FALSE} ELSE IF output_dir = "." THEN {TRUE} ELSE {TRUE, FALSE}

\* lines 464-470 and 502-503: with Announcements, sort them and make the
\* output directory (an exception of os.makedirs is not caught); without,
\* print the warning and go to the end
PrepareReport ==
    /\ m_pc = "process" /\ p_pc = "returned"
    /\ IF processed # <<>>
       THEN /\ processed' = sort_by_date_reverse(processed)
            /\ \E made \in makedirs_returns(IF environ.OUTPUT_DIR.set THEN environ.OUTPUT_DIR.v ELSE ".") :
                  m_pc' = IF made THEN "write" ELSE "crashed"
            /\ output' = output
       ELSE /\ processed' = processed
            /\ m_pc' = "done"
            /\ output' = Append(output, "No announcements found")
    /\ UNCHANGED <<announcements_data, p_i, seen, p_pc, p_calls, environ, GOOGLE_AVAILABLE, days_back, md_i,
                   all_announcements, fetches, calls, clock, midnights, dvars, hvars>>

\* os.path.join(output_dir, name)
path_join(output_dir, name) ==
    IF output_dir = "" THEN name
    ELSE IF CharAt(output_dir, Len(output_dir)) = "/" THEN output_dir \o name
    ELSE output_dir \o "/" \o name

Call(fn, data, file, count, result) ==
    [fn |-> fn, data |-> data, file |-> file, count |-> count, result |-> result]

\* lines 473-480: create_excel_report(processed_data, output_file); an
\* exception of the renderer (wb.save) is not caught
WriteReport ==
    /\ m_pc = "write"
    /\ \E saved \in BOOLEAN :
          /\ calls' = Append(calls,
                Call("create_excel_report", processed,
                     path_join(IF environ.OUTPUT_DIR.set THEN environ.OUTPUT_DIR.v ELSE ".",
                               "India_Corporate_Announcements_" \o strftime_ymd(clock) \o ".xlsx"),
                     Len(processed), IF saved THEN "saved" ELSE "raised"))
          /\ m_pc' = IF saved THEN "sheet" ELSE "crashed"
          /\ output_files' =
                IF saved
                THEN output_files \cup
                        {[file |-> path_join(IF environ.OUTPUT_DIR.set THEN environ.OUTPUT_DIR.v
                                             ELSE ".",
                                             "India_Corporate_Announcements_"
                                                 \o strftime_ymd(clock) \o ".xlsx"),
                          data |-> processed]}
                ELSE output_files
    /\ UNCHANGED <<environ, GOOGLE_AVAILABLE, days_back, md_i, all_announcements, fetches, output,
                   clock, midnights, sheet_requests, remote_sheet, hvars, pvars>>

\* ---- update_google_sheet

\* lines 342-343: the header row
SheetHeaders ==
    <<"Company", "Scrip Code", "Category", "Subject", "Date", "Time", "Key Highlights",
      "Investment Implication", "PDF Link">>

\* line 347: row = [item.get(h, '') for h in headers]
sheet_row(item) ==
    <<item.Company, PyStr(item.Scrip_Code), PyStr(item.Category), PyStr(item.Subject),
      PyStr(item.Date), PyStr(item.Time), PyStr(item.Key_Highlights),
      PyStr(item.Investment_Implication), PyStr(item.PDF_Link)>>

\* lines 345-348: rows = [headers] followed by one row per item of data
sheet_rows(data) ==
    <<[k \in 1..Len(SheetHeaders) |-> PyStr(SheetHeaders[k])]>>
        \o [k \in 1..Len(data) |-> sheet_row(data[k])]

\* a request to the values API of the sheet and whether it succeeded
SheetRequest(op, range, values, ok) == [op |-> op, range |-> range, values |-> values, ok |-> ok]

\* the remote sheet after a request took effect: clear empties the range,
\* update at A1 overwrites the leading rows, update at K1 sets that cell
sheet_after(sheet, request) ==
    IF request.op = "clear" THEN [sheet EXCEPT !.range_AI = <<>>]
    ELSE IF request.range = "Sheet1!A1"
    THEN [sheet EXCEPT !.range_AI =
             request.values \o SubSeq(sheet.range_AI, Len(request.values) + 1, Len(sheet.range_AI))]
    ELSE [sheet EXCEPT !.K1 = request.values[1][1].s]

\* the steps of update_google_sheet that can raise, and none
SheetFailurePoints == {"none", "credentials", "clear", "write", "timestamp"}

\* lines 350-371, were the rows written before the range is cleared
sheet_requests_write_first(data, now, fail_at) ==
    With(SheetRequest("update", "Sheet1!A1", sheet_rows(data), fail_at # "write"), LAMBDA write :
    With(SheetRequest("clear", "Sheet1!A:I", <<>>, fail_at # "clear"), LAMBDA clear :
    With(SheetRequest("update", "Sheet1!K1",
                      <<<<PyStr("Last Updated: " \o strftime_date(now) \o " "
                                    \o strftime_time(now))>>>>,
                      fail_at # "timestamp"), LAMBDA stamp :
        IF fail_at = "credentials" THEN <<>>
        ELSE IF fail_at = "write" THEN <<write>>
        ELSE IF fail_at = "clear" THEN <<write, clear>>
        ELSE <<write, clear, stamp>>)))

\* lines 350-371: the requests sent, in order, up to the one that raises:
\* clear Sheet1!A:I, update Sheet1!A1 with the rows, update Sheet1!K1 with
\* the time stamp; a failure of json.loads or of the client (lines 331-340)
\* comes before any request
sheet_requests_of(data, now, fail_at) ==
    With(SheetRequest("clear", "Sheet1!A:I", <<>>, fail_at # "clear"), LAMBDA clear :
    With(SheetRequest("update", "Sheet1!A1", sheet_rows(data), fail_at # "write"), LAMBDA write :
    With(SheetRequest("update", "Sheet1!K1",
                      <<<<PyStr("Last Updated: " \o strftime_date(now) \o " "
                                    \o strftime_time(now))>>>>,
                      fail_at # "timestamp"), LAMBDA stamp :
        IF fail_at = "credentials" THEN <<>>
        ELSE IF fail_at = "clear" THEN <<clear>>
        ELSE IF fail_at = "write" THEN <<clear, write>>
        ELSE <<clear, write, stamp>>)))

\* the handler of lines 376-378 were absent
sheet_exception_propagates == "raise"

\* lines 376-378: except Exception as e: print, return False
sheet_exception_handler == "return False"

\* lines 316-378: update_google_sheet(data): "skipped" (False, no request)
\* without the client library or the configuration, "failed" (False) after an
\* exception, "updated" (True) after the three requests
update_google_sheet(data, available, credentials_json, sheet_id, now, fail_at) ==
    IF ~available THEN [result |-> "skipped", requests |-> <<>>]
    ELSE IF ~env_truthy(credentials_json) \/ ~env_truthy(sheet_id)
    THEN [result |-> "skipped", requests |-> <<>>]
    ELSE [result |-> IF fail_at = "none" THEN "updated" ELSE "failed",
          requests |-> sheet_requests_of(data, now, fail_at)]

\* the sheet after the requests: a request that succeeded took effect, one
\* that raised may have taken effect or not
RECURSIVE sheet_after_all(_, _, _)
sheet_after_all(sheet, requests, failed_took_effect) ==
    IF requests = <<>> THEN sheet
    ELSE With(IF Head(requests).ok \/ failed_took_effect THEN sheet_after(sheet, Head(requests))
              ELSE sheet, LAMBDA next :
             sheet_after_all(next, Tail(requests), failed_took_effect))

\* line 484: main calls update_google_sheet(processed_data) and ignores the
\* value returned
UpdateSheet ==
    /\ m_pc = "sheet"
    /\ \E fail_at \in SheetFailurePoints, failed_took_effect \in BOOLEAN :
          \E r \in {update_google_sheet(processed, GOOGLE_AVAILABLE, environ.GOOGLE_CREDENTIALS,
                                        environ.GOOGLE_SHEET_ID, clock, fail_at)} :
              /\ sheet_requests' = sheet_requests \o r.requests
              /\ remote_sheet' = sheet_after_all(remote_sheet, r.requests, failed_took_effect)
              /\ IF r.result = "failed" /\ sheet_exception_handler # "return False"
                 THEN /\ m_pc' = "crashed"
                      /\ calls' = Append(calls, Call("update_google_sheet", processed, "",
                                                     Len(processed), "raised"))
                 ELSE /\ m_pc' = "email"
                      /\ calls' = Append(calls, Call("update_google_sheet", processed, "",
                                                     Len(processed), r.result))
    /\ UNCHANGED <<environ, GOOGLE_AVAILABLE, days_back, md_i, all_announcements, fetches, output,
                   clock, midnights, output_files, hvars, pvars>>

\* lines 488-501 and 381-441: send_email_report(output_file, count) returns
\* False without a connection when the credentials are missing, False after
\* any exception, True when the message was sent; main prints the success
\* line and the summary
SendEmail ==
    /\ m_pc = "email"
    /\ \E result \in (IF ~env_truthy(environ.EMAIL_ADDRESS) \/ ~env_truthy(environ.EMAIL_PASSWORD)
                      THEN {"skipped"} ELSE {"sent", "failed"}) :
          calls' = Append(calls, Call("send_email_report", <<>>, calls[1].file, Len(processed), result))
    /\ output' = Append(output, "Report generated successfully")
    /\ m_pc' = "done"
    /\ UNCHANGED <<environ, GOOGLE_AVAILABLE, days_back, md_i, all_announcements, fetches, clock,
                   midnights, dvars, hvars, pvars>>

\* midnight passes while the run is between two of its steps (the loop of
\* the fetch alone sleeps 1.5 seconds per date and waits for two requests)
Tick ==
    /\ m_pc \in {"fetch", "process", "write", "sheet", "email"}
    /\ midnights < MaxMidnights
    /\ clock' = next_midnight(clock)
    /\ midnights' = midnights + 1
    /\ UNCHANGED <<m_pc, environ, GOOGLE_AVAILABLE, days_back, md_i, all_announcements, fetches,
                   calls, output, dvars, hvars, pvars>>

Next ==
    \/ ReadDaysBack \/ FetchDate \/ StartProcess \/ ProcessRecord \/ ProcessReturn
    \/ PrepareReport \/ WriteReport \/ UpdateSheet \/ SendEmail \/ Tick

Spec == Init /\ [][Next]_vars

-----------------------------------------------------------------------------
(* C6, C7, C8 *)

\* the rows of the fetches, in call order
RECURSIVE RowsOf(_)
RowsOf(fs) == IF fs = <<>> THEN <<>> ELSE Head(fs).returned \o RowsOf(Tail(fs))

\* today is the day of the first fetch; the k-th trailing day is today-(k-1)
TrailingDay(k) == strftime_ymd(minus_days(fetches[1].target_date, k - 1))

OneFetchPerTrailingDay ==
    /\ Len(fetches) = (IF days_back > 0 THEN days_back ELSE 0)
    /\ \A k \in 1..Len(fetches) : strftime_ymd(fetches[k].target_date) = TrailingDay(k)
    /\ \A k \in 1..Len(fetches) : ~fetches[k].ok => fetches[k].returned = <<>>
    /\ all_announcements = RowsOf(fetches)

\* C6: when get_bse_announcements_multi_day(days_back) has returned, it has
\* issued exactly one fetch for each of the days_back trailing days (today,
\* today-1, ...), in that order; a fetch that failed contributed an empty
\* batch and stopped no later fetch, and the returned list is the
\* concatenation of the batches in call order.
C6_OneFetchPerTrailingDay == p_pc # "idle" => OneFetchPerTrailingDay

\* what holds of the fetch loop: the same, in the runs no midnight passes in
FetchesWithinOneDay == (p_pc # "idle" /\ midnights = 0) => OneFetchPerTrailingDay

\* data is non-increasing in the Date string
NonIncreasingByDate(data) ==
    \A a, b \in 1..Len(data) : a < b => ~str_lt(data[a].Date, data[b].Date)

\* C7: the list main hands to the renderer and to the sheet push is the list
\* of the run's Announcements ordered by the Date display string,
\* non-increasing under string comparison, so that its first element carries
\* the greatest Date string of the run.
C7_SortedByDateString ==
    \A k \in 1..Len(calls) :
        calls[k].fn \in {"create_excel_report", "update_google_sheet"} =>
            /\ calls[k].data = processed
            /\ Len(calls[k].data) >= 1
            /\ NonIncreasingByDate(calls[k].data)
            /\ \A a \in 1..Len(processed) : ~str_lt(calls[k].data[1].Date, processed[a].Date)

\* as fetched, 02 Feb 2024 came before 15 Jan 2024; the sheet push got the
\* later day second, its Date string being the smaller one
C7_Witness ==
    /\ Len(fetches) >= 2 /\ fetches[1].returned = <<RecFeb>> /\ fetches[2].returned = <<RecA51>>
    /\ \E k \in 1..Len(calls) :
          /\ calls[k].fn = "update_google_sheet"
          /\ Len(calls[k].data) = 2
          /\ calls[k].data[1].Date = "15 Jan 2024"
          /\ calls[k].data[2].Date = "02 Feb 2024"

WriteAttempted == \E k \in 1..Len(calls) : calls[k].fn = "create_excel_report"

\* C8: in a run of main that is over, the spreadsheet write was attempted if
\* and only if at least one Announcement was processed; with zero
\* Announcements the run printed the warning, called neither the renderer
\* nor the sheet push nor the email, and ended normally.
C8_WriteIffAnnouncements ==
    (m_pc \in {"done", "crashed"} /\ p_pc = "returned") =>
        /\ WriteAttempted <=> processed # <<>>
        /\ processed = <<>> =>
              /\ calls = <<>>
              /\ output = <<"No announcements found">>
              /\ m_pc = "done"

\* what holds of the end of main: no write without Announcements, and the
\* warning path as claimed
NoWriteWithoutAnnouncements ==
    (m_pc \in {"done", "crashed"} /\ p_pc = "returned") =>
        /\ WriteAttempted => processed # <<>>
        /\ processed = <<>> =>
              /\ calls = <<>>
              /\ output = <<"No announcements found">>
              /\ m_pc = "done"

-----------------------------------------------------------------------------
(* C16 *)

WriteSaved ==
    calls # <<>> /\ calls[1].fn = "create_excel_report" /\ calls[1].result = "saved"

SheetConfigured ==
    GOOGLE_AVAILABLE /\ env_truthy(environ.GOOGLE_CREDENTIALS) /\ env_truthy(environ.GOOGLE_SHEET_ID)

EmailConfigured == env_truthy(environ.EMAIL_ADDRESS) /\ env_truthy(environ.EMAIL_PASSWORD)

\* C16: in a run that wrote the spreadsheet file, neither distribution channel
\* is fatal and neither depends on the other: the sheet step returns (True, or
\* False after a failure, or False without configuration), then the email
\* step is attempted whatever the sheet step returned and returns likewise,
\* then main ends normally; a channel is skipped exactly when its
\* configuration is missing, and the written file stays as it was written.
C16_ChannelsIndependentNeverFatal ==
    WriteSaved =>
        /\ m_pc \in {"sheet", "email", "done"}
        /\ m_pc = "sheet" => (Len(calls) = 1 /\ ENABLED UpdateSheet)
        /\ m_pc = "email" => (Len(calls) = 2 /\ ENABLED SendEmail)
        /\ m_pc = "done" => Len(calls) = 3
        /\ Len(calls) >= 2 =>
              /\ calls[2].fn = "update_google_sheet"
              /\ calls[2].result \in {"updated", "failed", "skipped"}
              /\ calls[2].result = "skipped" <=> ~SheetConfigured
        /\ Len(calls) >= 3 =>
              /\ calls[3].fn = "send_email_report" /\ calls[3].file = calls[1].file
              /\ calls[3].result \in {"sent", "failed", "skipped"}
              /\ calls[3].result = "skipped" <=> ~EmailConfigured
        /\ output_files = {[file |-> calls[1].file, data |-> calls[1].data]}

\* the sheet push failed after the range was cleared, the email was sent all
\* the same and main ended normally
C16_Witness ==
    /\ m_pc = "done" /\ WriteSaved
    /\ calls[2].result = "failed" /\ Len(sheet_requests) = 2 /\ ~sheet_requests[2].ok
    /\ calls[3].result = "sent"
    /\ output[Len(output)] = "Report generated successfully"

-----------------------------------------------------------------------------
(* C17 *)

WriteRaised ==
    calls # <<>> /\ calls[Len(calls)].fn = "create_excel_report"
        /\ calls[Len(calls)].result = "raised"

\* C17: the only step of main whose failure terminates the run is the writing
\* of the spreadsheet file: a run that ended with an exception ended in
\* create_excel_report.
C17_OnlyTheWriteIsFatal == m_pc = "crashed" => WriteRaised

\* what holds of the fatal steps: a run ends with an exception in int() of
\* DAYS_BACK before anything is fetched, in os.makedirs after processing at
\* least one Announcement, or in create_excel_report; fetching, processing,
\* sorting, the sheet push and the email never end it
FatalStepsAreThree ==
    m_pc = "crashed" =>
        \/ /\ fetches = <<>> /\ p_pc = "idle" /\ calls = <<>>
           /\ environ.DAYS_BACK.set /\ ~py_int(environ.DAYS_BACK.v).ok
        \/ /\ p_pc = "returned" /\ processed # <<>> /\ calls = <<>>
           /\ environ.OUTPUT_DIR.set /\ environ.OUTPUT_DIR.v # "."
        \/ /\ WriteRaised /\ Len(calls) = 1

-----------------------------------------------------------------------------
(* C18 *)

ApiPositions(events) == {j \in 1..Len(events) : events[j] = Request("api")}

\* C18: every per-date fetch sends the warm-up request first and the query
\* only after the warm-up request has returned and the pause of half a second
\* has elapsed; a fetch whose warm-up request did not return sends no query;
\* every fetch is followed by a pause of one second, so that two successive
\* fetches are separated by a pause.
C18_WarmupPauseQueryPause ==
    \A k \in 1..Len(fetches) :
        LET events == fetches[k].events
        IN  /\ events[1] = Request("warm-up")
            /\ \A j \in 2..Len(events) : events[j] # Request("warm-up")
            /\ ApiPositions(events) \subseteq {3}
            /\ ApiPositions(events) # {} => (fetches[k].warmup_returned /\ events[2] = Sleep(5))
            /\ ~fetches[k].warmup_returned => ApiPositions(events) = {}
            /\ events[Len(events)] = Sleep(10)

\* a fetch whose warm-up request raised, followed by a fetch that went through
C18_Witness ==
    /\ Len(fetches) = 2
    /\ fetches[1].events = <<Request("warm-up"), Sleep(10)>> /\ ~fetches[1].ok
    /\ fetches[2].events = <<Request("warm-up"), Sleep(5), Request("api"), Sleep(10)>>
    /\ fetches[2].returned = <<RecA51>>

-----------------------------------------------------------------------------
(* C19 *)

\* the k-th request sent, when there is one, is the clearing of Sheet1!A:I
\* (k = 1), the writing at Sheet1!A1 of the header row followed by one row per
\* Announcement of data, in the order of the list and with the nine columns
\* in their order (k = 2), the writing of the time stamp at Sheet1!K1 (k = 3)
IsSheetStep(request, k, data) ==
    IF k = 1 THEN request.op = "clear" /\ request.range = "Sheet1!A:I"
    ELSE IF k = 2
    THEN /\ request.op = "update" /\ request.range = "Sheet1!A1"
         /\ Len(request.values) = Len(data) + 1
         /\ request.values[1] =
               <<PyStr("Company"), PyStr("Scrip Code"), PyStr("Category"), PyStr("Subject"),
                 PyStr("Date"), PyStr("Time"), PyStr("Key Highlights"),
                 PyStr("Investment Implication"), PyStr("PDF Link")>>
         /\ \A j \in 1..Len(data) :
               request.values[j + 1] =
                   <<data[j].Company, PyStr(data[j].Scrip_Code), PyStr(data[j].Category),
                     PyStr(data[j].Subject), PyStr(data[j].Date), PyStr(data[j].Time),
                     PyStr(data[j].Key_Highlights), PyStr(data[j].Investment_Implication),
                     PyStr(data[j].PDF_Link)>>
    ELSE /\ request.op = "update" /\ request.range = "Sheet1!K1"
         /\ Len(request.values) = 1 /\ Len(request.values[1]) = 1
         /\ LitAt(request.values[1][1].s, 1, "Last Updated: ")

\* C19: with credentials and sheet id configured, update_google_sheet sends
\* its requests in the order clear Sheet1!A:I, write header row and rows,
\* write the time stamp, none after a failed one, and returns True only when
\* all three were sent and succeeded; without configuration it sends none.
C19_ClearWriteStamp ==
    (Len(calls) >= 2 /\ calls[2].fn = "update_google_sheet") =>
        /\ Len(sheet_requests) <= 3
        /\ \A k \in 1..Len(sheet_requests) :
              /\ IsSheetStep(sheet_requests[k], k, calls[2].data)
              /\ k < Len(sheet_requests) => sheet_requests[k].ok
        /\ calls[2].result = "updated" =>
              (Len(sheet_requests) = 3 /\ \A k \in 1..3 : sheet_requests[k].ok)
        /\ (SheetConfigured /\ Len(sheet_requests) < 3) => calls[2].result = "failed"
        /\ ~SheetConfigured => sheet_requests = <<>>

\* a push of two Announcements that went through: three requests, the second
\* with the header row and the two rows in the order of the sorted list, and
\* the remote range holds these rows
C19_Witness ==
    /\ Len(calls) >= 2 /\ calls[2].fn = "update_google_sheet" /\ calls[2].result = "updated"
    /\ Len(calls[2].data) = 2
    /\ Len(sheet_requests) = 3
    /\ sheet_requests[2].values[2][5] = PyStr("16 Jan 2024")
    /\ sheet_requests[2].values[3][5] = PyStr("15 Jan 2024")
    /\ remote_sheet.range_AI = sheet_requests[2].values
    /\ remote_sheet.K1 # SheetOfLastRun.K1

-----------------------------------------------------------------------------
(* process_announcements called on records that write one instant in       *)
(* several ways, among them a record that raises after its key was added   *)
(* to the set (line 211) and records that carry the same key               *)

InstantPool == {RecZ, RecPlus, RecSec, RecBasic, RecList, RecListText, RecListTextZ}

InitInstants ==
    /\ HIdle /\ MIdle
    /\ announcements_data \in SeqsUpTo(InstantPool, MaxRecords)
    /\ p_i = 1 /\ processed = <<>> /\ seen = {} /\ p_pc = "loop" /\ p_calls = <<>>

SpecInstants == InitInstants /\ [][NextProcess]_vars

\* ---- C20

\* the displayed identity fields of an Announcement
RowIdentity(a) == <<a.Scrip_Code, a.Subject, a.Date, a.Time>>

DifferOnlyInDate(i, j) ==
    LET a == announcements_data[i]
        b == announcements_data[j]
    IN  /\ ~Raises(a) /\ ~Raises(b)
        /\ fields_of(a).news_dt # fields_of(b).news_dt
        /\ [fields_of(a) EXCEPT !.news_dt = PyNone] = [fields_of(b) EXCEPT !.news_dt = PyNone]

VisitedSurvivors == {i \in 1..(p_i - 1) : ~Raises(announcements_data[i])}

\* the record at position i was dropped as a duplicate: it does not raise and
\* no Announcement of the output carries its scrip code and subject
DroppedAsDuplicate(i) ==
    LET f == fields_of(announcements_data[i])
    IN  /\ ~Raises(announcements_data[i])
        /\ \A k \in 1..Len(processed) :
              ~(processed[k].Scrip_Code = f.scrip_code /\ processed[k].Subject = Prefix(f.subject.s, 200))

\* C21: the dedup key is injective on its three components: two records whose
\* triples (scrip code as string, first 50 characters of subject, raw date
\* field) differ never get the same key, and a record is dropped as a duplicate
\* only when all three components equal those of an earlier record.
C21_KeyInjectiveOnComponents ==
    /\ \A i, j \in VisitedSurvivors :
          DedupComponents(announcements_data[i]) # DedupComponents(announcements_data[j])
              => KeyString(announcements_data[i]) # KeyString(announcements_data[j])
    /\ p_pc = "returned" =>
          \A i \in 1..Len(announcements_data) :
              DroppedAsDuplicate(i) =>
                  \E j \in 1..(i - 1) :
                      /\ ~Raises(announcements_data[j])
                      /\ DedupComponents(announcements_data[j]) = DedupComponents(announcements_data[i])

\* what holds of the key: the string is a function of the three components, so
\* records with equal components always share a key
EqualComponentsShareKey ==
    \A i, j \in VisitedSurvivors :
        DedupComponents(announcements_data[i]) = DedupComponents(announcements_data[j])
            => KeyString(announcements_data[i]) = KeyString(announcements_data[j])

\* ---- C22

\* records whose subjects differ in what the highlights add to the scored text
RatingPool == {RecRise, RecDiv, RecDivPay, RecJoin, RecDivLoss}

InitRatings ==
    /\ HIdle /\ MIdle
    /\ announcements_data \in SeqsUpTo(RatingPool, MaxRecords)
    /\ p_i = 1 /\ processed = <<>> /\ seen = {} /\ p_pc = "loop" /\ p_calls = <<>>

SpecRatings == InitRatings /\ [][NextProcess]_vars

\* the two keyword counts of a text, without the category bonus
KeywordCounts(text) ==
    With(str_lower(text), LAMBDA text_lower :
        <<keyword_hits(POSITIVE_KEYWORDS, text_lower), keyword_hits(NEGATIVE_KEYWORDS, text_lower)>>)

\* the rating of the subject of an Announcement, scored without the highlights
RatingOfSubject(a) == assess_investment_implication(a.Subject, a.Category)

\* the text the scorer is handed for an Announcement (subjects of the pool are
\* shorter than the 200 characters the Subject field keeps)
ScoredText(a) == a.Subject \o " " \o a.Key_Highlights

\* C22 as claimed: the Investment Implication of every Announcement equals the
\* rating of its subject alone; the highlights add no keyword hit.
C22_HighlightsNeverChangeRating ==
    \A k \in 1..Len(processed) : processed[k].Investment_Implication = RatingOfSubject(processed[k])

\* C22: the Investment Implication of every Announcement is the rating of the
\* subject followed by a space and the highlights; each keyword count of that
\* text is at least the count of the subject alone, and the rating differs
\* from the rating of the subject alone only when a count is greater.
C22_RatingOfSubjectWithHighlights ==
    \A k \in 1..Len(processed) :
        With(processed[k], LAMBDA a :
        With(KeywordCounts(ScoredText(a)), LAMBDA with :
        With(KeywordCounts(a.Subject), LAMBDA alone :
            /\ a.Investment_Implication = rating_of(with[1] + category_bonus(a.Category), with[2])
            /\ with[1] >= alone[1] /\ with[2] >= alone[2]
            /\ a.Investment_Implication # rating_of(alone[1] + category_bonus(a.Category), alone[2])
                  => with # alone)))

\* a returned call whose output holds a subject rated higher with its
\* highlights (the label GROWTH adds the keyword growth), one rated lower (the
\* subject's end and the fragment's start join to "profit decline") and one
\* rated the same
C22_Witness ==
    /\ p_pc = "returned"
    /\ announcements_data = <<RecRise, RecJoin, RecDiv>>
    /\ Len(processed) = 3
    /\ processed[1].Key_Highlights = "GROWTH: 12"
    /\ RatingOfSubject(processed[1]) = Star \o Star \o " MODERATE"
    /\ processed[1].Investment_Implication = Star \o Star \o Star \o " POSITIVE"
    /\ RatingOfSubject(processed[2]) = Star \o Star \o Star \o " POSITIVE"
    /\ processed[2].Investment_Implication = Star \o Star \o " MODERATE"
    /\ processed[3].Investment_Implication = RatingOfSubject(processed[3])

\* ---- C23

\* the text holds no keyword of the negative list
NoNegativeKeyword(text) ==
    With(str_lower(text), LAMBDA text_lower : keyword_hits(NEGATIVE_KEYWORDS, text_lower) = 0)

TopRating == Star \o Star \o Star \o " POSITIVE"

\* C23 as claimed: every Announcement of category Dividend whose subject holds
\* no negative keyword is rated three stars, POSITIVE.
C23_DividendWithoutNegativeIsPositive ==
    \A k \in 1..Len(processed) :
        (processed[k].Category = "Dividend" /\ NoNegativeKeyword(processed[k].Subject))
            => processed[k].Investment_Implication = TopRating

\* C23: every Announcement of category Dividend whose scored text, the subject
\* followed by a space and the highlights, holds no negative keyword is rated
\* three stars, POSITIVE.
C23_DividendWithoutNegativeInScoredText ==
    \A k \in 1..Len(processed) :
        (processed[k].Category = "Dividend" /\ NoNegativeKeyword(ScoredText(processed[k])))
            => processed[k].Investment_Implication = TopRating

\* a returned call with two dividends rated POSITIVE, one with a figure in its
\* highlights, and a dividend whose subject holds no negative keyword while its
\* scored text holds "profit decline", rated MODERATE
C23_Witness ==
    /\ p_pc = "returned"
    /\ announcements_data = <<RecDivPay, RecJoin, RecDiv>>
    /\ Len(processed) = 3
    /\ \A k \in 1..3 : processed[k].Category = "Dividend"
    /\ processed[1].Key_Highlights = "DIVIDEND: 5"
    /\ processed[1].Investment_Implication = TopRating
    /\ processed[3].Investment_Implication = TopRating
    /\ NoNegativeKeyword(processed[2].Subject)
    /\ ~NoNegativeKeyword(ScoredText(processed[2]))
    /\ processed[2].Investment_Implication = Star \o Star \o " MODERATE"

\* ---- C24

\* update_google_sheet was called and returned False
PushReturnedFalse ==
    Len(calls) >= 2 /\ calls[2].fn = "update_google_sheet" /\ calls[2].result \in {"skipped", "failed"}

\* C24: a failed push leaves the sheet as it was: whenever update_google_sheet
\* returns False (missing library or configuration, bad credentials, a failure
\* of any remote step), the range Sheet1!A:I of the remote sheet holds the
\* content it held before the call.
C24_FailedPushLeavesSheet ==
    PushReturnedFalse => remote_sheet.range_AI = SheetOfLastRun.range_AI

\* what holds of a push that returned False: the sheet is as it was when no
\* request was sent (library or configuration missing, credentials rejected),
\* and otherwise the range is as it was, or empty after the clear, or holds
\* the rows of this run when the write was sent
FailedPushOutcomes ==
    PushReturnedFalse =>
        /\ sheet_requests = <<>> => remote_sheet = SheetOfLastRun
        /\ \/ remote_sheet.range_AI = SheetOfLastRun.range_AI
           \/ remote_sheet.range_AI = <<>> /\ sheet_requests[1].op = "clear"
           \/ Len(sheet_requests) >= 2 /\ remote_sheet.range_AI = sheet_requests[2].values

=============================================================================
